---- MODULE Spec2Model ----
(***************************************************************************)
(* Constraint resolution of SylinderSystem: per-step collection of wall    *)
(* and pair constraint blocks into the per-thread pools of the two         *)
(* collectors, the calls the driver makes on ConstraintSolver, and the     *)
(* projected BCQP iteration.                                               *)
(*                                                                         *)
(* Numbers are integers.  A 3-vector is a tuple <<x, y, z>>.  A vector on  *)
(* the mobility space has 6 entries per body.  Loop indices and thread     *)
(* ids are 0-based as in the source; sequences are 1-based.                *)
(***************************************************************************)
EXTENDS Integers, Sequences, FiniteSets, TLC

VARIABLES sylinderGidIndex, runConfig,          \* SylinderConfig runConfig
          sylinderContainer,  \* local bodies
          stepCount,          \* number of completed time steps
          pc,                 \* position of the driver in the time step
          uniPool,            \* uniConstraintPtr->constraintPoolPtr
          biPool,             \* biConstraintPtr->constraintPoolPtr
          owner,              \* omp for: loop index -> thread that runs it
          tpos,               \* per thread: next loop index to look at
          writes,             \* <<thread, pool>> pairs written in the step
          mobilityOperator,   \* mobilityOperatorRcp: null or the diagonal of the matrix
          velocityNonCon,     \* velocityNonConRcp: null or a 6N vector
          cs,                 \* *constraintSolverPtr
          fault,              \* fatal fault raised, "none" if none
          bcqp,               \* locals of the running BCQP solve
          forcePartNonBrownRcp,     \* user force, null or a 6N vector
          velocityPartNonBrownRcp,  \* user velocity, null or a 6N vector
          velocityNonBrownRcp,      \* read by calcVelocityNonCon, null or a 6N vector
          velocityBrownRcp,         \* Brownian velocity, null or a 6N vector
          peerRank,           \* another rank of the job: "running", "blocked" or "killed"
          snapID,             \* number of the next snapshot
          initIter,           \* the loop variable i of the resolution loop of initialize
          commSize,           \* commRcp->getSize()
          result,             \* the snapshots written: folder and number of each
          rankContainer,      \* per rank: the bodies of that rank's sylinderContainer
          sylinderMapRcp,     \* per rank: the global ids of its local map entries
          sylinderMobilityMapRcp,  \* per rank: the global ids of its local mobility map entries
          glbPtclVol,         \* per rank: the value calcPtclVol returned
          particles,          \* Particle_test: the particles packed
          sbuf,               \* Particle_test: the bytes of the msgpack buffer
          particles_verify,   \* Particle_test: the particles unpacked
          off                 \* Particle_test: the unpack offset

\* getIfWriteResultCurrentStep
getIfWriteResultCurrentStep == stepCount % (runConfig.timeSnap \div runConfig.dt) = 0

\* the vectors that prepareStep resets
inputs == <<forcePartNonBrownRcp, velocityPartNonBrownRcp, velocityNonBrownRcp, velocityBrownRcp>>

\* the state of all ranks together
ranksVars == <<rankContainer, sylinderMapRcp, sylinderMobilityMapRcp, glbPtclVol>>

\* the state of the packing test
packVars == <<particles, sbuf, particles_verify, off>>

\* what the routines of one time step on one rank leave alone
rest == <<snapID, initIter, commSize, result, ranksVars, packVars>>

vars == <<sylinderGidIndex, runConfig, sylinderContainer, stepCount, pc, uniPool, biPool, owner,
          tpos, writes, mobilityOperator, velocityNonCon, cs, fault, bcqp, inputs, peerRank, rest>>

(***************************************************************************)
(* Bounds                                                                  *)
(***************************************************************************)
NBodies == 2      \* local bodies
NThreads == 2     \* worker threads = pools per collector
MaxSteps == 2     \* time steps explored
MaxIteBound == 2  \* largest conMaxIte explored
MaxSnap == 401    \* snapshots written

(***************************************************************************)
(* Vector helpers (Eigen Evec3 and std::vector / Tpetra vectors)           *)
(***************************************************************************)
\* a null Teuchos::RCP: it points to no vector and no operator
NullRcp == <<>>

ZERO3 == <<0, 0, 0>>
Vadd(a, b) == <<a[1] + b[1], a[2] + b[2], a[3] + b[3]>>
Vsub(a, b) == <<a[1] - b[1], a[2] - b[2], a[3] - b[3]>>
Vscale(a, s) == <<a[1] * s, a[2] * s, a[3] * s>>
Vhalf(a) == <<a[1] \div 2, a[2] \div 2, a[3] \div 2>>
Cross(a, b) == <<a[2] * b[3] - a[3] * b[2],
                 a[3] * b[1] - a[1] * b[3],
                 a[1] * b[2] - a[2] * b[1]>>

RECURSIVE SumSeq(_)
SumSeq(s) == IF s = <<>> THEN 0 ELSE Head(s) + SumSeq(Tail(s))

\* f[1] + ... + f[n]
RECURSIVE SumOver(_, _)
SumOver(f, n) == IF n = 0 THEN 0 ELSE f[n] + SumOver(f, n - 1)

Dot(a, b) == SumOver([i \in DOMAIN a |-> a[i] * b[i]], Len(a))
Norm2(a) == Dot(a, a)
ZeroVec(n) == [i \in 1..n |-> 0]
VecAdd(a, b) == [i \in DOMAIN a |-> a[i] + b[i]]
Max(a, b) == IF a >= b THEN a ELSE b

RECURSIVE Concat(_)
Concat(pools) == IF pools = <<>> THEN <<>> ELSE Head(pools) \o Concat(Tail(pools))

(***************************************************************************)
(* ConstraintBlock: the constructor called at every emplace_back           *)
(***************************************************************************)
KappaUnset == 0 - 1   \* unilateral block: kappa not set (negative)
GEO_INVALID_INDEX == 0 - 1

ConstraintBlock(delta0_, gamma_, gidI_, gidJ_, globalIndexI_, globalIndexJ_, normI_, normJ_, posI_, posJ_, labI_, labJ_, oneSide_, kappa_) ==
    [delta0 |-> delta0_, gamma |-> gamma_, gidI |-> gidI_, gidJ |-> gidJ_,
     globalIndexI |-> globalIndexI_, globalIndexJ |-> globalIndexJ_,
     normI |-> normI_, normJ |-> normJ_, posI |-> posI_, posJ |-> posJ_,
     labI |-> labI_, labJ |-> labJ_, oneSide |-> oneSide_, kappa |-> kappa_]

(***************************************************************************)
(* ConstraintCollector                                                     *)
(***************************************************************************)
\* constructor: one empty pool per worker thread
NewCollector == [t \in 1..NThreads |-> <<>>]

\* clear(): drop all blocks, keep the pools
clear(pool) == [t \in 1..Len(pool) |-> <<>>]

\* number of blocks held
count(pool) == Len(Concat(pool))

(***************************************************************************)
(* Bodies and configurations explored                                      *)
(***************************************************************************)
ThreadIds == 0..(NThreads - 1)
LoopIds == 0..(NBodies - 1)

\* z-extent of the rods explored: centre height and length
Shapes ==
    { [z |-> 3, length |-> 2],     \* touches no wall
      [z |-> 1, length |-> 4],     \* lower end beyond the lower wall
      [z |-> 3, length |-> 6] }    \* both ends in a wall

\* with a rod whose two ends are at a distance of exactly its radius from a wall
ShapesCollect == Shapes \cup { [z |-> 3, length |-> 4] }

\* Sylinder(gid, radius, radiusCollision, length, lengthCollision, pos, orientation)
\* followed by clear(); direction is orientation * (0,0,1)
Sylinder(gid_, radius_, length_, pos_, direction_, next_) ==
    [gid |-> gid_, globalIndex |-> GEO_INVALID_INDEX,
     radius |-> radius_, radiusCollision |-> radius_,
     length |-> length_, lengthCollision |-> length_,
     pos |-> pos_, direction |-> direction_, next |-> next_,
     vel |-> ZERO3, omega |-> ZERO3,
     velNonB |-> ZERO3, omegaNonB |-> ZERO3,
     velBrown |-> ZERO3, omegaBrown |-> ZERO3,
     velCol |-> ZERO3, omegaCol |-> ZERO3,
     velBi |-> ZERO3, omegaBi |-> ZERO3]

\* Sylinder::clear(): zero the velocities of the body
SylinderClear(sy) ==
    [sy EXCEPT !.vel = ZERO3, !.omega = ZERO3, !.velNonB = ZERO3, !.omegaNonB = ZERO3,
               !.velBrown = ZERO3, !.omegaBrown = ZERO3, !.velCol = ZERO3,
               !.omegaCol = ZERO3, !.velBi = ZERO3, !.omegaBi = ZERO3]

\* gid of body i (0-based) as read from the initial file: distinct from the index
GidOf(i) == 10 + i

RunConfigs ==
    { [dt |-> 1, conResTol |-> 1, conMaxIte |-> m, wallLowZ |-> l, wallHighZ |-> h,
       simBoxLow |-> <<0, 0, 0>>, simBoxHigh |-> <<6, 6, 6>>, linkKappa |-> 1,
       sylinderDiameterColRatio |-> 1, sylinderLengthColRatio |-> 1,
       sylinderFixed |-> TRUE, KBT |-> k, timeSnap |-> 2] :
         m \in 1..MaxIteBound, l \in BOOLEAN, h \in BOOLEAN, k \in {0, 1} }
    \cup
    { [dt |-> d, conResTol |-> r, conMaxIte |-> m, wallLowZ |-> TRUE, wallHighZ |-> TRUE,
       simBoxLow |-> <<0, 0, 0>>, simBoxHigh |-> <<6, 6, 6>>, linkKappa |-> 1,
       sylinderDiameterColRatio |-> 1, sylinderLengthColRatio |-> 1,
       sylinderFixed |-> TRUE, KBT |-> 0, timeSnap |-> 2] :
         d \in {0, 1}, r \in {0, 1}, m \in {0, MaxIteBound} }

\* a default-constructed ConstraintSolver: no vector, matrix or operator allocated.
\* dt, res and maxIte have no initialiser; they are written before they are read.
NewConstraintSolver ==
    [lifecycle |-> "fresh", dt |-> 0, res |-> 0, maxIte |-> 0,
     mobOp |-> NullRcp, velnc |-> <<>>,
     DuMatTrans |-> <<>>, DbMatTrans |-> <<>>, invKappa |-> <<>>,
     delta0 |-> <<>>, deltanc |-> <<>>, q |-> <<>>, gamma |-> <<>>,
     nUni |-> 0, nBi |-> 0,
     forceu |-> <<>>, forceb |-> <<>>, velu |-> <<>>, velb |-> <<>>]

NoBCQP == [x |-> <<>>, g |-> <<>>, ite |-> 0, restarted |-> FALSE, reason |-> "none", residual |-> 0]

\* link.next of body k (1-based): no link, a chain head to tail, or a last
\* body linked to a gid that no body has
LinkNext(link, k) ==
    IF link = "chain" /\ k < NBodies THEN GidOf(k)
    ELSE IF link = "dangling" /\ k = NBodies THEN GidOf(NBodies)
    ELSE GEO_INVALID_INDEX

\* sylinderGidIndex, gid -> local index: empty (its fill in prepareStep is
\* commented out), holding every body, or holding every body but the last
NoIndex == <<>>
FullIndex == [g \in {GidOf(i) : i \in LoopIds} |-> g - GidOf(0)]
PartialIndex == [g \in {GidOf(i) : i \in 0..(NBodies - 2)} |-> g - GidOf(0)]

\* the variables of all ranks together and of the packing test, in the runs
\* that follow one rank through its time steps
NoRanks ==
    /\ rankContainer = <<>>
    /\ sylinderMapRcp = <<>>
    /\ sylinderMobilityMapRcp = <<>>
    /\ glbPtclVol = <<>>

NoPacking ==
    /\ particles = <<>>
    /\ sbuf = <<>>
    /\ particles_verify = <<>>
    /\ off = 0

\* the state when SylinderSystem::initialize has built the collectors and the
\* solver and read the bodies, before the first prepareStep
InitState(shapes, links, indexes) ==
    /\ sylinderGidIndex \in indexes
    /\ runConfig \in RunConfigs
    /\ \E shape \in [LoopIds -> shapes], spacing \in {1, 3}, link \in links :
         sylinderContainer =
           [k \in 1..NBodies |->
              Sylinder(GidOf(k - 1), 1, shape[k - 1].length,
                       <<spacing * (k - 1), 0, shape[k - 1].z>>, <<0, 0, 1>>,
                       LinkNext(link, k))]
    /\ stepCount = 0
    /\ pc = "prepareStep"
    /\ uniPool = NewCollector
    /\ biPool = NewCollector
    /\ owner \in [LoopIds -> ThreadIds]
    /\ tpos = [t \in ThreadIds |-> 0]
    /\ writes = {}
    /\ mobilityOperator = NullRcp
    /\ velocityNonCon = NullRcp
    /\ cs = NewConstraintSolver
    /\ fault = "none"
    /\ bcqp = NoBCQP
    /\ forcePartNonBrownRcp = NullRcp
    /\ velocityPartNonBrownRcp = NullRcp
    /\ velocityNonBrownRcp = NullRcp
    /\ velocityBrownRcp = NullRcp
    /\ peerRank = "running"
    /\ snapID = 0
    /\ initIter = 0
    /\ commSize = 2
    /\ result = {}
    /\ NoRanks
    /\ NoPacking

\* runs without thermal noise
Init ==
    /\ InitState(Shapes, {"none", "chain"}, {NoIndex})
    /\ runConfig.KBT = 0

(***************************************************************************)
(* SylinderSystem::initialize: the loop that resolves the collisions of    *)
(* the initial configuration                                               *)
(***************************************************************************)
\* for (int i = 0; i < 100; i++)
InitIterations == 100

\* initialize is inside its loop: the loop is entered only if the bodies are
\* not fixed, and it runs while i < 100
InInitialize == ~runConfig.sylinderFixed /\ initIter < InitIterations

(***************************************************************************)
(* SylinderSystem::prepareStep                                             *)
(***************************************************************************)
\* calcMobMatrix: block-diagonal mobility, the inverse drag of a rod falls with
\* its length; kept as the diagonal, 6 entries per body
calcMobOperator(container) ==
    [d \in 1..(6 * Len(container)) |-> 6 \div container[((d - 1) \div 6) + 1].length]

\* variant: the base of the rank is left out
updateSylinderMapOn_NoBase(container, globalIndexBase) ==
    [k \in 1..Len(container) |-> [container[k] EXCEPT !.globalIndex = k - 1]]

\* the loop of updateSylinderMap: globalIndex = i + globalIndexBase
updateSylinderMapOn(container, globalIndexBase) ==
    [k \in 1..Len(container) |-> [container[k] EXCEPT !.globalIndex = (k - 1) + globalIndexBase]]

\* updateSylinderMap on a single rank: the base of the map is 0
updateSylinderMap(container) == updateSylinderMapOn(container, 0)

\* variant: the user force and the Brownian velocity are kept
prepareStep_NoReset ==
    /\ pc = "prepareStep"
    /\ fault = "none"
    /\ stepCount < MaxSteps
    /\ sylinderContainer' =
         [k \in 1..NBodies |->
            LET sy == updateSylinderMap(sylinderContainer)[k]
            IN  SylinderClear(
                  [sy EXCEPT !.radiusCollision = sy.radius * runConfig.sylinderDiameterColRatio,
                             !.lengthCollision = sy.length * runConfig.sylinderLengthColRatio])]
    /\ mobilityOperator' = calcMobOperator(sylinderContainer)
    /\ uniPool' = clear(uniPool)
    /\ biPool' = clear(biPool)
    /\ writes' = {}
    /\ forcePartNonBrownRcp' = forcePartNonBrownRcp
    /\ velocityPartNonBrownRcp' = NullRcp
    /\ velocityNonBrownRcp' = NullRcp
    /\ velocityBrownRcp' = velocityBrownRcp
    /\ pc' = "prepared"
    /\ UNCHANGED <<sylinderGidIndex, runConfig, stepCount, owner, tpos, velocityNonCon, cs, fault, bcqp, peerRank, rest>>

prepareStep ==
    /\ pc = "prepareStep"
    /\ fault = "none"
    /\ stepCount < MaxSteps
    /\ sylinderContainer' =
         [k \in 1..NBodies |->
            LET sy == updateSylinderMap(sylinderContainer)[k]
            IN  SylinderClear(
                  [sy EXCEPT !.radiusCollision = sy.radius * runConfig.sylinderDiameterColRatio,
                             !.lengthCollision = sy.length * runConfig.sylinderLengthColRatio])]
    /\ mobilityOperator' = calcMobOperator(sylinderContainer)
    /\ uniPool' = clear(uniPool)
    /\ biPool' = clear(biPool)
    /\ writes' = {}
    /\ forcePartNonBrownRcp' = NullRcp
    /\ velocityPartNonBrownRcp' = NullRcp
    /\ velocityNonBrownRcp' = NullRcp
    /\ velocityBrownRcp' = NullRcp
    /\ pc' = "prepared"
    /\ UNCHANGED <<sylinderGidIndex, runConfig, stepCount, owner, tpos, velocityNonCon, cs, fault, bcqp, peerRank, rest>>

(***************************************************************************)
(* Calls made between prepareStep and runStep, and the start of runStep    *)
(***************************************************************************)
\* the force and the velocity a caller supplies: along z on the first body,
\* along x on every body
UserForces == { [d \in 1..(6 * NBodies) |-> IF d = 3 THEN 1 ELSE 0] }
UserVelocities == { [d \in 1..(6 * NBodies) |-> IF d % 6 = 1 THEN 1 ELSE 0] }

\* what the random numbers of calcVelocityBrown give one body
BrownDraws ==
    { [vel |-> <<0, 0, 1>>, omega |-> ZERO3],
      [vel |-> <<0, 0, 0 - 1>>, omega |-> <<1, 0, 0>>] }

setForceNonBrown ==
    /\ pc = "prepared"
    /\ forcePartNonBrownRcp = NullRcp
    /\ forcePartNonBrownRcp' \in UserForces
    /\ UNCHANGED <<sylinderGidIndex, runConfig, sylinderContainer, stepCount, pc, uniPool, biPool,
                   owner, tpos, writes, mobilityOperator, velocityNonCon, cs, fault, bcqp,
                   velocityPartNonBrownRcp, velocityNonBrownRcp, velocityBrownRcp, peerRank, rest>>

setVelocityNonBrown ==
    /\ pc = "prepared"
    /\ velocityPartNonBrownRcp = NullRcp
    /\ velocityPartNonBrownRcp' \in UserVelocities
    /\ UNCHANGED <<sylinderGidIndex, runConfig, sylinderContainer, stepCount, pc, uniPool, biPool,
                   owner, tpos, writes, mobilityOperator, velocityNonCon, cs, fault, bcqp,
                   forcePartNonBrownRcp, velocityNonBrownRcp, velocityBrownRcp, peerRank, rest>>

\* runStep: if (runConfig.KBT > 0) calcVelocityBrown(), which stores the draw
\* of every body in the body and in velocityBrownRcp; the loop of initialize
\* does not call it
calcVelocityBrown ==
    /\ pc = "prepared"
    /\ ~InInitialize
    /\ runConfig.KBT > 0
    /\ \E w \in [1..NBodies -> BrownDraws] :
         /\ sylinderContainer' =
              [k \in 1..NBodies |->
                 [sylinderContainer[k] EXCEPT !.velBrown = w[k].vel, !.omegaBrown = w[k].omega]]
         /\ velocityBrownRcp' =
              [d \in 1..(6 * NBodies) |->
                 LET k == ((d - 1) \div 6) + 1
                     c == ((d - 1) % 6) + 1
                 IN  IF c <= 3 THEN w[k].vel[c] ELSE w[k].omega[c - 3]]
    /\ pc' = "calcVelocityNonCon"
    /\ UNCHANGED <<sylinderGidIndex, runConfig, stepCount, uniPool, biPool, owner, tpos, writes,
                   mobilityOperator, velocityNonCon, cs, fault, bcqp,
                   forcePartNonBrownRcp, velocityPartNonBrownRcp, velocityNonBrownRcp, peerRank, rest>>

(***************************************************************************)
(* SylinderSystem::calcVelocityNonCon                                      *)
(***************************************************************************)
\* the vector when velNonB and omegaNonB are written back to the bodies:
\* mobility * forcePartNonBrown, plus velocityNonBrown
velocityNonBrownTotal ==
    LET fromForce == IF forcePartNonBrownRcp # NullRcp
                     THEN [d \in 1..(6 * NBodies) |-> mobilityOperator[d] * forcePartNonBrownRcp[d]]
                     ELSE ZeroVec(6 * NBodies)
    IN  IF velocityNonBrownRcp # NullRcp
        THEN [d \in 1..(6 * NBodies) |-> fromForce[d] + velocityNonBrownRcp[d]]
        ELSE fromForce

\* variant: velNonB and omegaNonB are written back after the Brownian
\* velocity was added
calcVelocityNonCon_BrownInNonB ==
    /\ pc = "calcVelocityNonCon" \/ (pc = "prepared" /\ (InInitialize \/ ~(runConfig.KBT > 0)))
    /\ velocityNonCon' =
         IF velocityBrownRcp # NullRcp
         THEN [d \in 1..(6 * NBodies) |-> velocityNonBrownTotal[d] + velocityBrownRcp[d]]
         ELSE velocityNonBrownTotal
    /\ sylinderContainer' =
         [k \in 1..NBodies |->
            [sylinderContainer[k] EXCEPT
               !.velNonB = <<velocityNonCon'[6 * (k - 1) + 1],
                             velocityNonCon'[6 * (k - 1) + 2],
                             velocityNonCon'[6 * (k - 1) + 3]>>,
               !.omegaNonB = <<velocityNonCon'[6 * (k - 1) + 4],
                               velocityNonCon'[6 * (k - 1) + 5],
                               velocityNonCon'[6 * (k - 1) + 6]>>]]
    /\ pc' = "collectPairCollision"
    /\ UNCHANGED <<sylinderGidIndex, runConfig, stepCount, uniPool, biPool, owner, tpos, writes,
                   mobilityOperator, cs, fault, bcqp, inputs, peerRank, rest>>

calcVelocityNonCon ==
    /\ pc = "calcVelocityNonCon" \/ (pc = "prepared" /\ (InInitialize \/ ~(runConfig.KBT > 0)))
    /\ velocityNonCon' =
         IF velocityBrownRcp # NullRcp
         THEN [d \in 1..(6 * NBodies) |-> velocityNonBrownTotal[d] + velocityBrownRcp[d]]
         ELSE velocityNonBrownTotal
    /\ sylinderContainer' =
         [k \in 1..NBodies |->
            [sylinderContainer[k] EXCEPT
               !.velNonB = <<velocityNonBrownTotal[6 * (k - 1) + 1],
                             velocityNonBrownTotal[6 * (k - 1) + 2],
                             velocityNonBrownTotal[6 * (k - 1) + 3]>>,
               !.omegaNonB = <<velocityNonBrownTotal[6 * (k - 1) + 4],
                               velocityNonBrownTotal[6 * (k - 1) + 5],
                               velocityNonBrownTotal[6 * (k - 1) + 6]>>]]
    /\ pc' = "collectPairCollision"
    /\ UNCHANGED <<sylinderGidIndex, runConfig, stepCount, uniPool, biPool, owner, tpos, writes,
                   mobilityOperator, cs, fault, bcqp, inputs, peerRank, rest>>

(***************************************************************************)
(* SylinderSystem::collectPairCollision                                    *)
(***************************************************************************)
RECURSIVE ISqrtFrom(_, _)
ISqrtFrom(n, r) == IF (r + 1) * (r + 1) > n THEN r ELSE ISqrtFrom(n, r + 1)
ISqrt(n) == ISqrtFrom(n, 0)
Abs(a) == IF a < 0 THEN 0 - a ELSE a
Sign(a) == IF a < 0 THEN 0 - 1 ELSE IF a > 0 THEN 1 ELSE 0
Min(a, b) == IF a <= b THEN a ELSE b

\* lowest and highest point of the axis of a rod that points along z
AxisLow(sy) == sy.pos[3] - (sy.lengthCollision \div 2)
AxisHigh(sy) == sy.pos[3] + (sy.lengthCollision \div 2)

\* CalcSylinderNearForce on the pair (I, J) of parallel rods: closest points of
\* the two axes (smaller parameter on a tie) and a contact block if they overlap
PairContact(syI, syJ) ==
    LET zlo == Max(AxisLow(syI), AxisLow(syJ))
        zhi == Min(AxisHigh(syI), AxisHigh(syJ))
        zI == IF zlo <= zhi THEN zlo ELSE IF AxisHigh(syI) < AxisLow(syJ) THEN AxisHigh(syI) ELSE AxisLow(syI)
        zJ == IF zlo <= zhi THEN zlo ELSE IF AxisHigh(syI) < AxisLow(syJ) THEN AxisLow(syJ) ELSE AxisHigh(syJ)
        Ploc == <<syI.pos[1], syI.pos[2], zI>>
        Qloc == <<syJ.pos[1], syJ.pos[2], zJ>>
        d == ISqrt(Norm2(Vsub(Qloc, Ploc)))
        sep == d - (syI.radiusCollision + syJ.radiusCollision)
        normI == <<Sign(Qloc[1] - Ploc[1]), 0, 0>>
    IN  IF zlo <= zhi /\ d > 0 /\ sep < 0
        THEN << ConstraintBlock(sep, 0 - sep, syI.gid, syJ.gid, syI.globalIndex, syJ.globalIndex,
                                normI, Vscale(normI, 0 - 1),
                                Vsub(Ploc, syI.pos), Vsub(Qloc, syJ.pos), Ploc, Qloc,
                                FALSE, KappaUnset) >>
        ELSE <<>>

\* CalcSylinderNearForce on a linked pair: head of I tied to tail of J, the
\* spring constant left unset for the driver to fill in
PairLink(syI, syJ) ==
    LET Ploc == <<syI.pos[1], syI.pos[2], syI.pos[3] + (syI.length \div 2)>>
        Qloc == <<syJ.pos[1], syJ.pos[2], syJ.pos[3] - (syJ.length \div 2)>>
        d == ISqrt(Norm2(Vsub(Ploc, Qloc)))
        sep == d - (syI.radius + syJ.radius)
        normI == <<Sign(Ploc[1] - Qloc[1]), 0, 0>>
    IN  IF syI.next = syJ.gid
        THEN << ConstraintBlock(sep, 0, syI.gid, syJ.gid, syI.globalIndex, syJ.globalIndex,
                                normI, Vscale(normI, 0 - 1),
                                Vsub(Ploc, syI.pos), Vsub(Qloc, syJ.pos), Ploc, Qloc,
                                FALSE, KappaUnset) >>
        ELSE <<>>

\* treeSylinderNearPtr->calcForceAll(calcColFtr, ...): body I is handled by the
\* thread owner[I]; a pair is reported once, by the body of smaller index
\* what the functor emits for the pair (I, J) into the collector of a kind
PairBlocks(kind, syI, syJ) ==
    IF kind = "contact" THEN PairContact(syI, syJ) ELSE PairLink(syI, syJ)

RECURSIVE calcForceAll(_, _, _, _)
calcForceAll(pool, container, kind, k) ==
    IF k > Len(container) * Len(container) THEN pool
    ELSE LET i == ((k - 1) \div Len(container)) + 1
             j == ((k - 1) % Len(container)) + 1
             blocks == IF i < j THEN PairBlocks(kind, container[i], container[j]) ELSE <<>>
         IN  calcForceAll([pool EXCEPT ![owner[i - 1] + 1] = @ \o blocks],
                          container, kind, k + 1)

\* variant: the bilateral queues are left as the functor filled them
fillLinkKappa_Skip(pool, linkKappa) == pool

\* the loop over the bilateral queues that fills in an unset spring constant
fillLinkKappa(pool, linkKappa) ==
    [q \in 1..Len(pool) |->
       [b \in 1..Len(pool[q]) |->
          IF pool[q][b].kappa < 0
          THEN [pool[q][b] EXCEPT !.kappa = linkKappa,
                                  !.gamma = linkKappa * pool[q][b].delta0]
          ELSE pool[q][b]]]

\* collectWallCollision: the first parallel region it enters, and the one that
\* follows the lower wall; ret is where its caller goes on when it returns
WallEntry(ret) == IF runConfig.wallLowZ THEN "wallLow"
                  ELSE IF runConfig.wallHighZ THEN "wallHigh" ELSE ret
AfterWallLow(ret) == IF runConfig.wallHighZ THEN "wallHigh" ELSE ret

collectPairCollision ==
    /\ pc = "collectPairCollision"
    /\ uniPool' = calcForceAll(uniPool, sylinderContainer, "contact", 1)
    /\ biPool' = fillLinkKappa(calcForceAll(biPool, sylinderContainer, "link", 1),
                               runConfig.linkKappa)
    /\ tpos' = [t \in ThreadIds |-> 0]
    /\ pc' = WallEntry("setup")
    /\ UNCHANGED <<sylinderGidIndex, runConfig, sylinderContainer, stepCount, owner, writes,
                   mobilityOperator, velocityNonCon, cs, fault, bcqp, inputs, peerRank, rest>>

(***************************************************************************)
(* SylinderSystem::collectWallCollision                                    *)
(***************************************************************************)
\* the if / else-if chain that picks the contact point of a rod with a wall
WallHit(distm, distp, Pm, Pp) ==
    IF distm < distp /\ distm < 0
    THEN [wallCollide |-> TRUE, colLoc |-> Pm, phi0 |-> distm]
    ELSE IF distm > distp /\ distp < 0
    THEN [wallCollide |-> TRUE, colLoc |-> Pp, phi0 |-> distp]
    ELSE IF distm = distp /\ distm < 0
    THEN [wallCollide |-> TRUE, colLoc |-> Vhalf(Vadd(Pm, Pp)), phi0 |-> distm]
    ELSE [wallCollide |-> FALSE, colLoc |-> ZERO3, phi0 |-> 0]

\* body of the loop over the lower wall: the blocks it appends for body sy
WallLowBlocks(sy) ==
    LET wallBot == runConfig.simBoxLow[3]
        Pm == Vsub(sy.pos, Vscale(sy.direction, sy.lengthCollision \div 2))
        Pp == Vadd(sy.pos, Vscale(sy.direction, sy.lengthCollision \div 2))
        distm == Pm[3] - wallBot - sy.radius
        distp == Pp[3] - wallBot - sy.radius
        hit == WallHit(distm, distp, Pm, Pp)
    IN  IF hit.wallCollide
        THEN << ConstraintBlock(hit.phi0, 0 - hit.phi0, sy.gid, sy.gid + 1,
                                sy.globalIndex, sy.globalIndex + 1,
                                <<0, 0, 1>>, ZERO3, Vsub(hit.colLoc, sy.pos), ZERO3,
                                hit.colLoc, <<hit.colLoc[1], hit.colLoc[2], wallBot>>,
                                TRUE, KappaUnset) >>
        ELSE <<>>

\* variant: the upper wall pushes upwards
WallHighBlocks_UpNormal(sy) ==
    LET wallTop == runConfig.simBoxHigh[3]
        Pm == Vsub(sy.pos, Vscale(sy.direction, sy.lengthCollision \div 2))
        Pp == Vadd(sy.pos, Vscale(sy.direction, sy.lengthCollision \div 2))
        hit == WallHit(wallTop - Pm[3] - sy.radius, wallTop - Pp[3] - sy.radius, Pm, Pp)
    IN  IF hit.wallCollide
        THEN << ConstraintBlock(hit.phi0, 0 - hit.phi0, sy.gid, sy.gid + 1,
                                sy.globalIndex, sy.globalIndex + 1,
                                <<0, 0, 1>>, ZERO3, Vsub(hit.colLoc, sy.pos), ZERO3,
                                hit.colLoc, <<hit.colLoc[1], hit.colLoc[2], wallTop>>,
                                TRUE, KappaUnset) >>
        ELSE <<>>

\* body of the loop over the upper wall
WallHighBlocks(sy) ==
    LET wallTop == runConfig.simBoxHigh[3]
        Pm == Vsub(sy.pos, Vscale(sy.direction, sy.lengthCollision \div 2))
        Pp == Vadd(sy.pos, Vscale(sy.direction, sy.lengthCollision \div 2))
        distm == wallTop - Pm[3] - sy.radius
        distp == wallTop - Pp[3] - sy.radius
        hit == WallHit(distm, distp, Pm, Pp)
    IN  IF hit.wallCollide
        THEN << ConstraintBlock(hit.phi0, 0 - hit.phi0, sy.gid, sy.gid + 1,
                                sy.globalIndex, sy.globalIndex + 1,
                                <<0, 0, 0 - 1>>, ZERO3, Vsub(hit.colLoc, sy.pos), ZERO3,
                                hit.colLoc, <<hit.colLoc[1], hit.colLoc[2], wallTop>>,
                                TRUE, KappaUnset) >>
        ELSE <<>>

\* variant: one thread more than there are pools
WallNThreads_OneMore == Len(uniPool) + 1

\* const int nThreads = collisionPoolPtr->size()
WallNThreads == Len(uniPool)

\* variant: every thread appends to pool 0
WallPoolOf_Zero(threadId) == 0

\* the pool a thread appends to: (*collisionPoolPtr)[threadId]
WallPoolOf(threadId) == threadId

\* loop indices of the omp for that thread t has still to run
Remaining(t) == {i \in LoopIds : owner[i] = t /\ i >= tpos[t]}
NextIndex(t) == CHOOSE i \in Remaining(t) : \A j \in Remaining(t) : i <= j

\* the blocks the loop body of a wall appends for body sy
WallBlocks(wall, sy) == IF wall = "low" THEN WallLowBlocks(sy) ELSE WallHighBlocks(sy)

\* one iteration of the omp for of a wall, run by thread threadId
WallIteration(threadId, wall) ==
    /\ Remaining(threadId) # {}
    /\ LET i == NextIndex(threadId)
           blocks == WallBlocks(wall, sylinderContainer[i + 1])
       IN  /\ uniPool' = [uniPool EXCEPT ![WallPoolOf(threadId) + 1] = @ \o blocks]
           /\ writes' = IF blocks = <<>> THEN writes
                        ELSE writes \cup {<<threadId, WallPoolOf(threadId)>>}
           /\ tpos' = [tpos EXCEPT ![threadId] = i + 1]
    /\ UNCHANGED <<sylinderGidIndex, runConfig, sylinderContainer, stepCount, pc, biPool, owner,
                   mobilityOperator, velocityNonCon, cs, fault, bcqp, inputs, peerRank, rest>>

collectWallLow(threadId) ==
    /\ pc = "wallLow"
    /\ WallIteration(threadId, "low")

collectWallHigh(threadId) ==
    /\ pc = "wallHigh"
    /\ WallIteration(threadId, "high")

\* the implicit barrier that ends a parallel region
WallBarrier(ret) ==
    /\ pc \in {"wallLow", "wallHigh"}
    /\ \A t \in 0..(WallNThreads - 1) : Remaining(t) = {}
    /\ pc' = IF pc = "wallLow" THEN AfterWallLow(ret) ELSE ret
    /\ tpos' = [t \in ThreadIds |-> 0]
    /\ UNCHANGED <<sylinderGidIndex, runConfig, sylinderContainer, stepCount, uniPool, biPool, owner, writes,
                   mobilityOperator, velocityNonCon, cs, fault, bcqp, inputs, peerRank, rest>>

\* in resolveConstraints the solver is set up when collectWallCollision returns
collectWallBarrier == WallBarrier("setup")

(***************************************************************************)
(* SylinderSystem::collectLinkBilateral                                    *)
(***************************************************************************)
\* const int nThreads = cPool.size()
LinkNThreads == Len(biPool)

\* variant: every thread uses queue 0
LinkPoolOf_Zero(tid) == 0

\* the queue a thread clears and appends to: cPool[tid]
LinkPoolOf(tid) == tid

\* a thread that has not yet run its cQue.clear()
NotCleared == 0 - 1

\* variant: the block keeps the sentinel as the index of J
LinkBlock_NoIndexJ(syI, syJ, kappa) ==
    LET Pp == Vadd(syI.pos, Vscale(syI.direction, syI.length \div 2))
        Qm == Vsub(syJ.pos, Vscale(syJ.direction, syJ.length \div 2))
        vecIJ == Vsub(Pp, Qm)
        dist == ISqrt(Norm2(vecIJ))
        normI == <<vecIJ[1] \div dist, vecIJ[2] \div dist, vecIJ[3] \div dist>>
        sep == dist - (((syI.radius + syJ.radius) * 105) \div 100)
    IN  ConstraintBlock(sep, (0 - sep) * kappa, syI.gid, syJ.gid,
                        syI.globalIndex, GEO_INVALID_INDEX,
                        normI, Vscale(normI, 0 - 1),
                        Vsub(Pp, syI.pos), Vsub(Qm, syJ.pos), Pp, Qm, FALSE, kappa)

\* head of I tied to tail of J: the block both steps build once J is known
LinkBlock(syI, syJ, kappa) ==
    LET Pp == Vadd(syI.pos, Vscale(syI.direction, syI.length \div 2))
        Qm == Vsub(syJ.pos, Vscale(syJ.direction, syJ.length \div 2))
        vecIJ == Vsub(Pp, Qm)
        dist == ISqrt(Norm2(vecIJ))
        normI == <<vecIJ[1] \div dist, vecIJ[2] \div dist, vecIJ[3] \div dist>>
        sep == dist - (((syI.radius + syJ.radius) * 105) \div 100)
    IN  ConstraintBlock(sep, (0 - sep) * kappa, syI.gid, syJ.gid,
                        syI.globalIndex, syJ.globalIndex,
                        normI, Vscale(normI, 0 - 1),
                        Vsub(Pp, syI.pos), Vsub(Qm, syJ.pos), Pp, Qm, FALSE, kappa)

\* body of the omp for of step 1: what the iteration of body syI appends
LinkBlocks(syI) ==
    IF syI.next = GEO_INVALID_INDEX THEN <<>>
    ELSE IF syI.next \in DOMAIN sylinderGidIndex
    THEN << LinkBlock(syI, sylinderContainer[sylinderGidIndex[syI.next] + 1],
                      runConfig.linkKappa) >>
    ELSE << ConstraintBlock(0, 0, syI.gid, syI.next, syI.globalIndex, GEO_INVALID_INDEX,
                            <<0, 0, 1>>, <<0, 0, 1>>, <<0, 0, 1>>, <<0, 0, 1>>,
                            <<0, 0, 1>>, <<0, 0, 1>>, FALSE, KappaUnset) >>

\* collectLinkBilateral is entered: the parallel region of step 1 starts
collectLinkEnter ==
    /\ pc = "prepared"
    /\ pc' = "linkParallel"
    /\ tpos' = [t \in ThreadIds |-> NotCleared]
    /\ UNCHANGED <<sylinderGidIndex, runConfig, sylinderContainer, stepCount, uniPool, biPool,
                   owner, writes, mobilityOperator, velocityNonCon, cs, fault, bcqp, inputs, peerRank, rest>>

\* auto &cQue = cPool[tid]; cQue.clear();
collectLinkClear(tid) ==
    /\ pc = "linkParallel"
    /\ tpos[tid] = NotCleared
    /\ biPool' = [biPool EXCEPT ![LinkPoolOf(tid) + 1] = <<>>]
    /\ writes' = writes \cup {<<tid, LinkPoolOf(tid)>>}
    /\ tpos' = [tpos EXCEPT ![tid] = 0]
    /\ UNCHANGED <<sylinderGidIndex, runConfig, sylinderContainer, stepCount, pc, uniPool,
                   owner, mobilityOperator, velocityNonCon, cs, fault, bcqp, inputs, peerRank, rest>>

\* one iteration of the omp for of step 1, run by thread tid
collectLinkIteration(tid) ==
    /\ pc = "linkParallel"
    /\ tpos[tid] # NotCleared
    /\ Remaining(tid) # {}
    /\ LET i == NextIndex(tid)
           blocks == LinkBlocks(sylinderContainer[i + 1])
       IN  /\ biPool' = [biPool EXCEPT ![LinkPoolOf(tid) + 1] = @ \o blocks]
           /\ writes' = IF blocks = <<>> THEN writes
                        ELSE writes \cup {<<tid, LinkPoolOf(tid)>>}
           /\ tpos' = [tpos EXCEPT ![tid] = i + 1]
    /\ UNCHANGED <<sylinderGidIndex, runConfig, sylinderContainer, stepCount, pc, uniPool,
                   owner, mobilityOperator, velocityNonCon, cs, fault, bcqp, inputs, peerRank, rest>>

\* the implicit barrier that ends the parallel region of step 1
collectLinkBarrier ==
    /\ pc = "linkParallel"
    /\ \A t \in 0..(LinkNThreads - 1) : tpos[t] # NotCleared /\ Remaining(t) = {}
    /\ pc' = "linkStep2"
    /\ tpos' = [t \in ThreadIds |-> 0]
    /\ UNCHANGED <<sylinderGidIndex, runConfig, sylinderContainer, stepCount, uniPool, biPool,
                   owner, writes, mobilityOperator, velocityNonCon, cs, fault, bcqp, inputs, peerRank, rest>>

\* sylinderNearDataDirectoryPtr->find() on a single rank: for every gid asked
\* for, the data of the body that has it, or an entry of no body
NoNearData == [gid |-> GEO_INVALID_INDEX]
DirectoryFind(gidToFind) ==
    [k \in 1..Len(gidToFind) |->
       IF \E j \in 1..NBodies : sylinderContainer[j].gid = gidToFind[k]
       THEN sylinderContainer[CHOOSE j \in 1..NBodies : sylinderContainer[j].gid = gidToFind[k]]
       ELSE NoNearData]

\* the gids pushed to gidToFind: gidJ of the unresolved blocks, in pool order
GidToFind(pool) ==
    LET blocks == Concat(pool)
        F[k \in 0..Len(blocks)] ==
            IF k = 0 THEN <<>>
            ELSE IF blocks[k].globalIndexJ = GEO_INVALID_INDEX
                 THEN Append(F[k - 1], blocks[k].gidJ) ELSE F[k - 1]
    IN  F[Len(blocks)]

\* the second loop of step 2 over the queues: position (q, b) with findIndex
\* answers used so far; exit is set when std::exit(1) is hit
RECURSIVE linkStep2Loop(_, _, _, _, _)
linkStep2Loop(pool, dataToFind, q, b, findIndex) ==
    IF q > Len(pool) THEN [exit |-> FALSE, pool |-> pool]
    ELSE IF b > Len(pool[q]) THEN linkStep2Loop(pool, dataToFind, q + 1, 1, findIndex)
    ELSE IF pool[q][b].globalIndexJ # GEO_INVALID_INDEX
    THEN linkStep2Loop(pool, dataToFind, q, b + 1, findIndex)
    ELSE IF pool[q][b].gidI \notin DOMAIN sylinderGidIndex THEN [exit |-> TRUE, pool |-> pool]
    ELSE IF dataToFind[findIndex + 1].gid # pool[q][b].gidJ THEN [exit |-> TRUE, pool |-> pool]
    ELSE linkStep2Loop(
           [pool EXCEPT ![q][b] =
              LinkBlock(sylinderContainer[sylinderGidIndex[pool[q][b].gidI] + 1],
                        dataToFind[findIndex + 1], runConfig.linkKappa)],
           dataToFind, q, b + 1, findIndex + 1)

\* step 2: the blocks whose J was not local are completed from the directory
collectLinkStep2 ==
    /\ pc = "linkStep2"
    /\ LET res == linkStep2Loop(biPool, DirectoryFind(GidToFind(biPool)), 1, 1, 0)
       IN  IF res.exit
           THEN /\ fault' = "exit"
                /\ pc' = "aborted"
                /\ biPool' = biPool
           ELSE /\ fault' = fault
                /\ pc' = "prepared"
                /\ biPool' = res.pool
    /\ UNCHANGED <<sylinderGidIndex, runConfig, sylinderContainer, stepCount, uniPool, owner,
                   tpos, writes, mobilityOperator, velocityNonCon, cs, bcqp, inputs, peerRank, rest>>

\* std::exit(1) ends the calling rank alone, no abort is sent to the
\* communicator: what becomes of another rank of the job is up to the MPI
\* launcher, which may kill it or leave it to wait in its next collective
\* operation for the rank that is gone
peerAfterExit ==
    /\ fault = "exit"
    /\ peerRank = "running"
    /\ peerRank' \in {"blocked", "killed"}
    /\ UNCHANGED <<sylinderGidIndex, runConfig, sylinderContainer, stepCount, pc, uniPool, biPool,
                   owner, tpos, writes, mobilityOperator, velocityNonCon, cs, fault, bcqp, inputs, rest>>

(***************************************************************************)
(* ConstraintCollector::buildConstraintMatrixVector and ConstraintOperator *)
(***************************************************************************)
\* the 6 entries a block contributes for one body: norm and pos x norm
BlockEntries(norm, pos) == norm \o Cross(pos, norm)

\* row of D^T of one block over the 6N mobility dofs; the columns of body J
\* are left out for a oneSide block
BlockRow(block, nDof) ==
    [d \in 1..nDof |->
       IF (d - 1) \div 6 = block.globalIndexI
       THEN BlockEntries(block.normI, block.posI)[((d - 1) % 6) + 1]
       ELSE IF ~block.oneSide /\ (d - 1) \div 6 = block.globalIndexJ
       THEN BlockEntries(block.normJ, block.posJ)[((d - 1) % 6) + 1]
       ELSE 0]

\* rows in pool order: pool 0 first, then pool 1, ...
buildMatrix(pool, nDof) ==
    LET blocks == Concat(pool)
    IN  [k \in 1..Len(blocks) |-> BlockRow(blocks[k], nDof)]

buildDelta0(pool) ==
    LET blocks == Concat(pool)
    IN  [k \in 1..Len(blocks) |-> blocks[k].delta0]

buildGammaInit(pool) ==
    LET blocks == Concat(pool)
    IN  [k \in 1..Len(blocks) |-> blocks[k].gamma]

buildInvKappa(pool) ==
    LET blocks == Concat(pool)
    IN  [k \in 1..Len(blocks) |-> 1 \div blocks[k].kappa]

\* a block of the pool refers to a body that no map resolves
Unresolvable(pool, nBody) ==
    \E k \in 1..Len(Concat(pool)) :
        LET b == Concat(pool)[k]
        IN  \/ b.globalIndexI \notin 0..(nBody - 1)
            \/ ~b.oneSide /\ b.globalIndexJ \notin 0..(nBody - 1)

\* y = D^T v: one dot product per row
MatTransApply(DT, v) == [k \in 1..Len(DT) |-> Dot(DT[k], v)]

\* f = D y: the rows weighted by the multipliers y[first + 1], y[first + 2], ...
MatApply(DT, y, first, nDof) ==
    [d \in 1..nDof |-> SumOver([k \in DOMAIN DT |-> DT[k][d] * y[first + k]], Len(DT))]

\* y = M x for the block-diagonal mobility
MobApply(mobOp, x) == [d \in DOMAIN mobOp |-> mobOp[d] * x[d]]

\* ConstraintOperator::apply on y = [y_u ; y_b]
MOpApply(solver, y) ==
    LET nDof == Len(solver.mobOp)
        f == VecAdd(MatApply(solver.DuMatTrans, y, 0, nDof),
                    MatApply(solver.DbMatTrans, y, solver.nUni, nDof))
        u == MobApply(solver.mobOp, f)
    IN  [k \in 1..(solver.nUni + solver.nBi) |->
           IF k <= solver.nUni
           THEN Dot(solver.DuMatTrans[k], u)
           ELSE Dot(solver.DbMatTrans[k - solver.nUni], u)
                + solver.dt * solver.invKappa[k - solver.nUni] * y[k]]

(***************************************************************************)
(* BCQPSolver: projected gradient descent on [gamma_u ; gamma_b]           *)
(***************************************************************************)
\* an upper bound of the largest eigenvalue of M_total = D^T M D + dt K^-1:
\* the largest mobility times the squared entries of D^T, plus the compliance
RECURSIVE MaxOf(_, _)
MaxOf(v, n) == IF n = 0 THEN 0 ELSE Max(v[n], MaxOf(v, n - 1))

OperatorBound(solver) ==
    LET rows == solver.DuMatTrans \o solver.DbMatTrans
    IN  1 + MaxOf(solver.mobOp, Len(solver.mobOp))
              * SumOver([k \in DOMAIN rows |-> Norm2(rows[k])], Len(rows))
          + solver.dt * MaxOf(solver.invKappa, Len(solver.invKappa))

\* step lengths the Barzilai-Borwein rule may return, as the denominators d of
\* alpha = 1/d: the rule keeps alpha within the inverse spectrum of M_total
AlphaChoices(solver) == {(OperatorBound(solver) + 1) \div 2, OperatorBound(solver)}

\* variant: no clipping at all
Project_NoClip(y, nUni) == [k \in DOMAIN y |-> y[k]]

\* the projection: max(., 0) on the unilateral range, identity on the bilateral
Project(y, nUni) == [k \in DOMAIN y |-> IF k <= nUni THEN Max(y[k], 0) ELSE y[k]]

\* g = M_total gamma + q
Gradient(solver, y) == VecAdd(solver.q, MOpApply(solver, y))

\* squared norm of gamma - P(gamma - g) for the gradient g at gamma
ResidualOf(y, g, nUni) ==
    LET p == Project([k \in DOMAIN y |-> y[k] - g[k]], nUni)
    IN  SumOver([k \in DOMAIN y |-> (y[k] - p[k]) * (y[k] - p[k])], Cardinality(DOMAIN y))

Residual2(solver, y) == ResidualOf(y, Gradient(solver, y), solver.nUni)

\* ||gamma - P(gamma - g)|| / max(1, ||gamma_0||) <= res, on squared norms
Converged(solver, y) ==
    Residual2(solver, y) <= solver.res * solver.res * Max(1, Norm2(solver.gamma))

\* gamma_{k+1} = P(gamma_k - alpha g_k), alpha = 1/alphaDen
ProjectedStep(y, g, alphaDen, nUni) ==
    Project([k \in DOMAIN y |-> y[k] - (g[k] \div alphaDen)], nUni)

\* entry of the solve: the initial iterate is tested before any step is taken
BCQPStart(solver) ==
    [x |-> solver.gamma, g |-> Gradient(solver, solver.gamma),
     ite |-> 0, restarted |-> FALSE,
     residual |-> Residual2(solver, solver.gamma),
     reason |-> IF Converged(solver, solver.gamma) THEN "converged"
                ELSE IF solver.maxIte <= 0 THEN "maxIte" ELSE "none"]

\* variant: the iteration count is tested one iteration late
BCQPIteration_OneMore(solver, b, alphaDen, nan) ==
    IF nan
    THEN IF b.restarted
         THEN [b EXCEPT !.reason = "numeric_failure"]
         ELSE [b EXCEPT !.restarted = TRUE]
    ELSE LET xn == ProjectedStep(b.x, b.g, alphaDen, solver.nUni)
             gn == Gradient(solver, xn)
             rn == ResidualOf(xn, gn, solver.nUni)
         IN  [b EXCEPT !.x = xn, !.g = gn, !.ite = b.ite + 1,
                       !.residual = rn,
                       !.reason = IF rn <= solver.res * solver.res * Max(1, Norm2(solver.gamma))
                                  THEN "converged"
                                  ELSE IF b.ite + 1 > solver.maxIte THEN "maxIte"
                                  ELSE "none"]

\* one iteration with step length 1/alphaDen; nan: the step came out non-finite
BCQPIteration(solver, b, alphaDen, nan) ==
    IF nan
    THEN IF b.restarted
         THEN [b EXCEPT !.reason = "numeric_failure"]
         ELSE [b EXCEPT !.restarted = TRUE]
    ELSE LET xn == ProjectedStep(b.x, b.g, alphaDen, solver.nUni)
             gn == Gradient(solver, xn)
             rn == ResidualOf(xn, gn, solver.nUni)
         IN  [b EXCEPT !.x = xn, !.g = gn, !.ite = b.ite + 1,
                       !.residual = rn,
                       !.reason = IF rn <= solver.res * solver.res * Max(1, Norm2(solver.gamma))
                                  THEN "converged"
                                  ELSE IF b.ite + 1 >= solver.maxIte THEN "maxIte"
                                  ELSE "none"]

(***************************************************************************)
(* ConstraintSolver                                                        *)
(***************************************************************************)
\* setControlParams(res_, maxIte_): the two assignments of the header
setControlParams(solver, res_, maxIte_) ==
    [solver EXCEPT !.res = res_, !.maxIte = maxIte_, !.lifecycle = "configured"]

\* the fault setup raises before it touches the solver, "none" if it goes on
setupFault(uniConstraints_, biConstraints_, mobOp_, velnc_, dt_) ==
    IF dt_ <= 0 \/ mobOp_ = NullRcp \/ velnc_ = NullRcp THEN "InvalidInput"
    ELSE IF Len(velnc_) # Len(mobOp_) THEN "InvalidInput"
    ELSE IF Unresolvable(uniConstraints_, Len(mobOp_) \div 6)
            \/ Unresolvable(biConstraints_, Len(mobOp_) \div 6) THEN "AssemblyInconsistency"
    ELSE "none"

\* setup(uniConstraints_, biConstraints_, mobOpRcp_, velncRcp_, dt_): assemble
\* D_u^T, D_b^T, delta_0, q = delta_0 + D^T vel_nc and the initial gamma,
\* clipped on the unilateral range
setup(solver, uniConstraints_, biConstraints_, mobOp_, velnc_, dt_) ==
    LET nDof == Len(mobOp_)
        Du == buildMatrix(uniConstraints_, nDof)
        Db == buildMatrix(biConstraints_, nDof)
        d0 == buildDelta0(uniConstraints_) \o buildDelta0(biConstraints_)
        dnc == MatTransApply(Du, velnc_) \o MatTransApply(Db, velnc_)
        g0 == buildGammaInit(uniConstraints_) \o buildGammaInit(biConstraints_)
    IN  [solver EXCEPT !.lifecycle = "setup_done", !.dt = dt_,
                       !.mobOp = mobOp_, !.velnc = velnc_,
                       !.DuMatTrans = Du, !.DbMatTrans = Db,
                       !.invKappa = buildInvKappa(biConstraints_),
                       !.delta0 = d0, !.deltanc = dnc, !.q = VecAdd(d0, dnc),
                       !.nUni = Len(Du), !.nBi = Len(Db),
                       !.gamma = Project(g0, Len(Du)),
                       !.forceu = <<>>, !.forceb = <<>>, !.velu = <<>>, !.velb = <<>>]

\* the end of solveConstraints: gamma of the BCQP solve, then the constraint
\* forces f = D gamma and velocities v = M f of both kinds
solveFinish(solver, x) ==
    LET nDof == Len(solver.mobOp)
        fu == MatApply(solver.DuMatTrans, x, 0, nDof)
        fb == MatApply(solver.DbMatTrans, x, solver.nUni, nDof)
    IN  [solver EXCEPT !.lifecycle = "solved", !.gamma = x,
                       !.forceu = fu, !.forceb = fb,
                       !.velu = MobApply(solver.mobOp, fu),
                       !.velb = MobApply(solver.mobOp, fb)]

\* ConstraintCollector::writeBackGamma: walk the pools in order with a running
\* index into the slice of gamma that belongs to the collector
RECURSIVE writebackPools(_, _, _, _)
writebackPools(pool, gammaSlice, p, offset) ==
    IF p > Len(pool) THEN pool
    ELSE writebackPools(
           [pool EXCEPT ![p] = [b \in 1..Len(pool[p]) |->
                                  [pool[p][b] EXCEPT !.gamma = gammaSlice[offset + b]]]],
           gammaSlice, p + 1, offset + Len(pool[p]))

\* variant: every unilateral block receives the first entry of gamma
writebackUni_First(solver, pool) ==
    [q \in 1..Len(pool) |->
       [b \in 1..Len(pool[q]) |-> [pool[q][b] EXCEPT !.gamma = solver.gamma[1]]]]

\* writebackGamma(): gamma_u to the unilateral blocks, gamma_b to the bilateral
writebackUni(solver, pool) ==
    writebackPools(pool, SubSeq(solver.gamma, 1, solver.nUni), 1, 0)
writebackBi(solver, pool) ==
    writebackPools(pool, SubSeq(solver.gamma, solver.nUni + 1, solver.nUni + solver.nBi), 1, 0)

(***************************************************************************)
(* SylinderSystem::resolveConstraints: the calls on the solver, in the     *)
(* order of the source                                                     *)
(***************************************************************************)
resolveSetup ==
    /\ pc = "setup"
    /\ LET f == setupFault(uniPool, biPool, mobilityOperator, velocityNonCon, runConfig.dt)
       IN  IF f # "none"
           THEN /\ fault' = f
                /\ pc' = "aborted"
                /\ cs' = cs
           ELSE /\ cs' = setup(cs, uniPool, biPool, mobilityOperator, velocityNonCon, runConfig.dt)
                /\ pc' = "setControlParams"
                /\ fault' = fault
    /\ UNCHANGED <<sylinderGidIndex, runConfig, sylinderContainer, stepCount, uniPool, biPool, owner, tpos,
                   writes, mobilityOperator, velocityNonCon, bcqp, inputs, peerRank, rest>>

resolveSetControlParams ==
    /\ pc = "setControlParams"
    /\ cs' = setControlParams(cs, runConfig.conResTol, runConfig.conMaxIte)
    /\ pc' = "solveConstraints"
    /\ UNCHANGED <<sylinderGidIndex, runConfig, sylinderContainer, stepCount, uniPool, biPool, owner, tpos,
                   writes, mobilityOperator, velocityNonCon, fault, bcqp, inputs, peerRank, rest>>

\* solveConstraints, first part: the BCQP solve is entered
resolveSolve ==
    /\ pc = "solveConstraints"
    /\ bcqp' = BCQPStart(cs)
    /\ pc' = "bcqp"
    /\ UNCHANGED <<sylinderGidIndex, runConfig, sylinderContainer, stepCount, uniPool, biPool, owner, tpos,
                   writes, mobilityOperator, velocityNonCon, cs, fault, inputs, peerRank, rest>>

\* one iteration of the BCQP solve
BCQPStep ==
    /\ pc = "bcqp"
    /\ bcqp.reason = "none"
    /\ \E alphaDen \in AlphaChoices(cs), nan \in BOOLEAN :
         bcqp' = BCQPIteration(cs, bcqp, alphaDen, nan)
    /\ UNCHANGED <<sylinderGidIndex, runConfig, sylinderContainer, stepCount, pc, uniPool, biPool, owner, tpos,
                   writes, mobilityOperator, velocityNonCon, cs, fault, inputs, peerRank, rest>>

\* solveConstraints, last part: a numeric failure is propagated, any other
\* outcome stores gamma and the constraint forces and velocities
resolveSolved ==
    /\ pc = "bcqp"
    /\ bcqp.reason # "none"
    /\ IF bcqp.reason = "numeric_failure"
       THEN /\ fault' = "NumericFailure"
            /\ pc' = "aborted"
            /\ cs' = cs
       ELSE /\ cs' = solveFinish(cs, bcqp.x)
            /\ pc' = "writebackGamma"
            /\ fault' = fault
    /\ UNCHANGED <<sylinderGidIndex, runConfig, sylinderContainer, stepCount, uniPool, biPool, owner, tpos,
                   writes, mobilityOperator, velocityNonCon, bcqp, inputs, peerRank, rest>>

\* the driver goes on to writebackGamma after every solve that returns
\* variant: gamma is written back only after a converged solve
resolveWriteback_OnlyConverged ==
    /\ pc = "writebackGamma"
    /\ uniPool' = IF bcqp.reason = "converged" THEN writebackUni(cs, uniPool) ELSE uniPool
    /\ biPool' = IF bcqp.reason = "converged" THEN writebackBi(cs, biPool) ELSE biPool
    /\ cs' = [cs EXCEPT !.lifecycle = "written"]
    /\ pc' = "saveVelocityConstraints"
    /\ UNCHANGED <<sylinderGidIndex, runConfig, sylinderContainer, stepCount, owner, tpos, writes,
                   mobilityOperator, velocityNonCon, fault, bcqp, inputs, peerRank, rest>>

resolveWriteback ==
    /\ pc = "writebackGamma"
    /\ uniPool' = writebackUni(cs, uniPool)
    /\ biPool' = writebackBi(cs, biPool)
    /\ cs' = [cs EXCEPT !.lifecycle = "written"]
    /\ pc' = "saveVelocityConstraints"
    /\ UNCHANGED <<sylinderGidIndex, runConfig, sylinderContainer, stepCount, owner, tpos, writes,
                   mobilityOperator, velocityNonCon, fault, bcqp, inputs, peerRank, rest>>

(***************************************************************************)
(* The rest of the time step                                               *)
(***************************************************************************)
Slice3(v, k, first) == <<v[6 * (k - 1) + first + 1], v[6 * (k - 1) + first + 2], v[6 * (k - 1) + first + 3]>>

saveVelocityConstraints ==
    /\ pc = "saveVelocityConstraints"
    /\ sylinderContainer' =
         [k \in 1..NBodies |->
            [sylinderContainer[k] EXCEPT !.velCol = Slice3(cs.velu, k, 0),
                                         !.omegaCol = Slice3(cs.velu, k, 3),
                                         !.velBi = Slice3(cs.velb, k, 0),
                                         !.omegaBi = Slice3(cs.velb, k, 3)]]
    /\ pc' = "sumVelocity"
    /\ UNCHANGED <<sylinderGidIndex, runConfig, stepCount, uniPool, biPool, owner, tpos, writes,
                   mobilityOperator, velocityNonCon, cs, fault, bcqp, inputs, peerRank, rest>>

\* variant: runStep writes a result in every step
sumVelocity_WriteAlways ==
    /\ pc = "sumVelocity"
    /\ sylinderContainer' =
         [k \in 1..NBodies |->
            LET sy == sylinderContainer[k]
            IN  [sy EXCEPT !.vel = Vadd(Vadd(sy.velNonB, sy.velBrown), Vadd(sy.velCol, sy.velBi)),
                           !.omega = Vadd(Vadd(sy.omegaNonB, sy.omegaBrown),
                                          Vadd(sy.omegaCol, sy.omegaBi))]]
    /\ pc' = IF ~InInitialize THEN "writeResult" ELSE "stepEuler"
    /\ UNCHANGED <<sylinderGidIndex, runConfig, stepCount, uniPool, biPool, owner, tpos, writes,
                   mobilityOperator, velocityNonCon, cs, fault, bcqp, inputs, peerRank, rest>>

\* runStep goes on to writeResult on a snapshot step, the loop of initialize
\* never does
sumVelocity ==
    /\ pc = "sumVelocity"
    /\ sylinderContainer' =
         [k \in 1..NBodies |->
            LET sy == sylinderContainer[k]
            IN  [sy EXCEPT !.vel = Vadd(Vadd(sy.velNonB, sy.velBrown), Vadd(sy.velCol, sy.velBi)),
                           !.omega = Vadd(Vadd(sy.omegaNonB, sy.omegaBrown),
                                          Vadd(sy.omegaCol, sy.omegaBi))]]
    /\ pc' = IF ~InInitialize /\ getIfWriteResultCurrentStep THEN "writeResult" ELSE "stepEuler"
    /\ UNCHANGED <<sylinderGidIndex, runConfig, stepCount, uniPool, biPool, owner, tpos, writes,
                   mobilityOperator, velocityNonCon, cs, fault, bcqp, inputs, peerRank, rest>>

\* variant: the range of a folder reaches the first snapshot of the next
getCurrentResultFolder_WideHigh(snap, size) ==
    LET num == Max(400 \div size, 1)
        k == snap \div num
    IN  [low |-> k * num, high |-> k * num + num]

\* getCurrentResultFolder: the folder result<low>-<high> of snapshot snap
getCurrentResultFolder(snap, size) ==
    LET num == Max(400 \div size, 1)
        k == snap \div num
    IN  [low |-> k * num, high |-> k * num + num - 1]

\* writeResult: the files of snapshot snapID are written to the current
\* folder, then snapID++.  It is called by runStep on a snapshot step, and by
\* a caller that writes snapshots on its own.
writeResult ==
    /\ pc \in {"writeResult", "snapshots"}
    /\ snapID < MaxSnap
    /\ result' = result \cup {[folder |-> getCurrentResultFolder(snapID, commSize), snapID |-> snapID]}
    /\ snapID' = snapID + 1
    /\ pc' = IF pc = "writeResult" THEN "stepEuler" ELSE pc
    /\ UNCHANGED <<sylinderGidIndex, runConfig, sylinderContainer, stepCount, uniPool, biPool, owner,
                   tpos, writes, mobilityOperator, velocityNonCon, cs, fault, bcqp, inputs, peerRank,
                   initIter, commSize, ranksVars, packVars>>

\* Sylinder::stepEuler(dt) on one body
SylinderStepEuler_Twice(sy, dt) == [sy EXCEPT !.pos = Vadd(@, Vscale(sy.vel, 2 * dt))]

SylinderStepEuler(sy, dt) == [sy EXCEPT !.pos = Vadd(@, Vscale(sy.vel, dt))]

\* variant: the loop of initialize counts its iterations as time steps
stepEuler_CountsSteps ==
    /\ pc = "stepEuler"
    /\ sylinderContainer' =
         IF ~runConfig.sylinderFixed
         THEN [k \in 1..NBodies |-> SylinderStepEuler(sylinderContainer[k], runConfig.dt)]
         ELSE sylinderContainer
    /\ IF InInitialize
       THEN initIter' = initIter + 1 /\ stepCount' = stepCount + 1
       ELSE stepCount' = stepCount + 1 /\ initIter' = initIter
    /\ pc' = "prepareStep"
    /\ UNCHANGED <<sylinderGidIndex, runConfig, uniPool, biPool, owner, tpos, writes,
                   mobilityOperator, velocityNonCon, cs, fault, bcqp, inputs, peerRank,
                   snapID, commSize, result, ranksVars, packVars>>

\* stepEuler, followed by the stepCount++ that ends runStep or by the i++ of
\* the loop of initialize
stepEuler ==
    /\ pc = "stepEuler"
    /\ sylinderContainer' =
         IF ~runConfig.sylinderFixed
         THEN [k \in 1..NBodies |-> SylinderStepEuler(sylinderContainer[k], runConfig.dt)]
         ELSE sylinderContainer
    /\ IF InInitialize
       THEN initIter' = initIter + 1 /\ stepCount' = stepCount
       ELSE stepCount' = stepCount + 1 /\ initIter' = initIter
    /\ pc' = "prepareStep"
    /\ UNCHANGED <<sylinderGidIndex, runConfig, uniPool, biPool, owner, tpos, writes,
                   mobilityOperator, velocityNonCon, cs, fault, bcqp, inputs, peerRank,
                   snapID, commSize, result, ranksVars, packVars>>

Next ==
    \/ prepareStep
    \/ calcVelocityNonCon
    \/ collectPairCollision
    \/ \E t \in 0..(WallNThreads - 1) : collectWallLow(t)
    \/ \E t \in 0..(WallNThreads - 1) : collectWallHigh(t)
    \/ collectWallBarrier
    \/ resolveSetup
    \/ resolveSetControlParams
    \/ resolveSolve
    \/ BCQPStep
    \/ resolveSolved
    \/ resolveWriteback
    \/ saveVelocityConstraints
    \/ sumVelocity
    \/ writeResult
    \/ stepEuler

Spec == Init /\ [][Next]_vars

(***************************************************************************)
(* Time steps with thermal noise and with the calls a user makes between   *)
(* prepareStep and runStep                                                 *)
(***************************************************************************)
InitInputs ==
    /\ InitState(Shapes, {"none", "chain"}, {NoIndex})
    /\ runConfig.dt = 1
    /\ runConfig.conResTol = 1
    /\ runConfig.conMaxIte = 1
    /\ runConfig.wallLowZ
    /\ runConfig.wallHighZ

NextInputs ==
    \/ Next
    \/ setForceNonBrown
    \/ setVelocityNonBrown
    \/ calcVelocityBrown

SpecInputs == InitInputs /\ [][NextInputs]_vars

(***************************************************************************)
(* The whole run of one rank: the loop of initialize, then time steps with *)
(* and without thermal noise, with fixed and with moving bodies            *)
(***************************************************************************)
RunConfigsRun ==
    { [dt |-> 1, conResTol |-> r, conMaxIte |-> 1, wallLowZ |-> TRUE, wallHighZ |-> TRUE,
       simBoxLow |-> <<0, 0, 0>>, simBoxHigh |-> <<6, 6, 6>>, linkKappa |-> 1,
       sylinderDiameterColRatio |-> 1, sylinderLengthColRatio |-> 1,
       sylinderFixed |-> f, KBT |-> k, timeSnap |-> t] :
         r \in {0, 1}, f \in BOOLEAN, k \in {0, 1}, t \in {1, 2} }

\* initialize after setPosWithWall, before the resolution loop: the rods are
\* clear of the walls or touch the lower one, two rods may overlap each other
InitRun ==
    /\ sylinderGidIndex = NoIndex
    /\ runConfig \in RunConfigsRun
    /\ \E spacing \in {1, 3}, z \in {2, 3} :
         sylinderContainer =
           [k \in 1..NBodies |->
              Sylinder(GidOf(k - 1), 1, 2, <<spacing * (k - 1), 0, z>>, <<0, 0, 1>>,
                       GEO_INVALID_INDEX)]
    /\ stepCount = 0
    /\ pc = "prepareStep"
    /\ uniPool = NewCollector
    /\ biPool = NewCollector
    /\ owner = [i \in LoopIds |-> i % NThreads]
    /\ tpos = [t \in ThreadIds |-> 0]
    /\ writes = {}
    /\ mobilityOperator = NullRcp
    /\ velocityNonCon = NullRcp
    /\ cs = NewConstraintSolver
    /\ fault = "none"
    /\ bcqp = NoBCQP
    /\ forcePartNonBrownRcp = NullRcp
    /\ velocityPartNonBrownRcp = NullRcp
    /\ velocityNonBrownRcp = NullRcp
    /\ velocityBrownRcp = NullRcp
    /\ peerRank = "running"
    /\ snapID = 0
    /\ initIter = 0
    /\ commSize = 2
    /\ result = {}
    /\ NoRanks
    /\ NoPacking

NextRun ==
    \/ Next
    \/ calcVelocityBrown

SpecRun == InitRun /\ [][NextRun]_vars

(***************************************************************************)
(* The contact-generation routines called on their own after prepareStep,  *)
(* any number of times and in any order                                    *)
(***************************************************************************)
MaxWallBlocks == 4   \* collectWallCollision is not entered above this count

collectWallEnter ==
    /\ pc = "prepared"
    /\ count(uniPool) < MaxWallBlocks
    /\ runConfig.wallLowZ \/ runConfig.wallHighZ
    /\ pc' = WallEntry("prepared")
    /\ tpos' = [t \in ThreadIds |-> 0]
    /\ UNCHANGED <<sylinderGidIndex, runConfig, sylinderContainer, stepCount, uniPool, biPool,
                   owner, writes, mobilityOperator, velocityNonCon, cs, fault, bcqp, inputs, peerRank, rest>>

collectWallReturn == WallBarrier("prepared")

InitCollect ==
    /\ InitState(ShapesCollect, {"none", "chain", "dangling"}, {NoIndex, FullIndex, PartialIndex})
    /\ runConfig.dt = 1
    /\ runConfig.conResTol = 1
    /\ runConfig.conMaxIte = 1
    /\ runConfig.KBT = 0

NextCollect ==
    \/ prepareStep
    \/ collectWallEnter
    \/ \E t \in 0..(WallNThreads - 1) : collectWallLow(t)
    \/ \E t \in 0..(WallNThreads - 1) : collectWallHigh(t)
    \/ collectWallReturn
    \/ collectLinkEnter
    \/ \E t \in 0..(LinkNThreads - 1) : collectLinkClear(t)
    \/ \E t \in 0..(LinkNThreads - 1) : collectLinkIteration(t)
    \/ collectLinkBarrier
    \/ collectLinkStep2
    \/ peerAfterExit

SpecCollect == InitCollect /\ [][NextCollect]_vars

(***************************************************************************)
(* SylinderSystem::setPosWithWall, followed by collectWallCollision        *)
(***************************************************************************)
\* const double buffer = 1e-4: the unit of length here is the buffer
buffer == 1

\* the first loop: a rod with an end below the lower wall is lifted until its
\* lower end is at the buffer from the wall
setPosLow(sy) ==
    LET wallBot == runConfig.simBoxLow[3]
        Pm == Vsub(sy.pos, Vscale(sy.direction, sy.lengthCollision \div 2))
        Pp == Vadd(sy.pos, Vscale(sy.direction, sy.lengthCollision \div 2))
        distm == Pm[3] - sy.radius - wallBot
        distp == Pp[3] - sy.radius - wallBot
    IN  IF distm < distp /\ distm < 0
        THEN [sy EXCEPT !.pos = Vadd(@, <<0, 0, (0 - distm) + buffer>>)]
        ELSE IF distp <= distm /\ distp < 0
        THEN [sy EXCEPT !.pos = Vadd(@, <<0, 0, (0 - distp) + buffer>>)]
        ELSE sy

\* variant: a rod above the upper wall is moved further up
setPosHigh_Up(sy) ==
    LET wallTop == runConfig.simBoxHigh[3]
        Pm == Vsub(sy.pos, Vscale(sy.direction, sy.lengthCollision \div 2))
        Pp == Vadd(sy.pos, Vscale(sy.direction, sy.lengthCollision \div 2))
        distm == wallTop - (Pm[3] + sy.radius)
        distp == wallTop - (Pp[3] + sy.radius)
    IN  IF distm < distp /\ distm < 0
        THEN [sy EXCEPT !.pos = Vadd(@, <<0, 0, (0 - distm) + buffer>>)]
        ELSE IF distp <= distm /\ distp < 0
        THEN [sy EXCEPT !.pos = Vadd(@, <<0, 0, (0 - distp) + buffer>>)]
        ELSE sy

\* the second loop: a rod with an end above the upper wall is lowered until
\* its upper end is at the buffer from the wall
setPosHigh(sy) ==
    LET wallTop == runConfig.simBoxHigh[3]
        Pm == Vsub(sy.pos, Vscale(sy.direction, sy.lengthCollision \div 2))
        Pp == Vadd(sy.pos, Vscale(sy.direction, sy.lengthCollision \div 2))
        distm == wallTop - (Pm[3] + sy.radius)
        distp == wallTop - (Pp[3] + sy.radius)
    IN  IF distm < distp /\ distm < 0
        THEN [sy EXCEPT !.pos = Vsub(@, <<0, 0, (0 - distm) + buffer>>)]
        ELSE IF distp <= distm /\ distp < 0
        THEN [sy EXCEPT !.pos = Vsub(@, <<0, 0, (0 - distp) + buffer>>)]
        ELSE sy

\* setPosWithWall: the loop of the lower wall if it is enabled, then the loop
\* of the upper wall if it is enabled
setPosWithWall ==
    /\ pc = "setPosWithWall"
    /\ sylinderContainer' =
         [k \in 1..NBodies |->
            LET low == IF runConfig.wallLowZ THEN setPosLow(sylinderContainer[k])
                       ELSE sylinderContainer[k]
            IN  IF runConfig.wallHighZ THEN setPosHigh(low) ELSE low]
    /\ pc' = "prepared"
    /\ UNCHANGED <<sylinderGidIndex, runConfig, stepCount, uniPool, biPool, owner, tpos, writes,
                   mobilityOperator, velocityNonCon, cs, fault, bcqp, inputs, peerRank, rest>>

\* the rods read by initialize: any height, upright, upside down or lying
RodsDrawn ==
    { [z |-> z, length |-> l, direction |-> d] :
        z \in {0 - 1, 1, 2, 3, 5, 7}, l \in {2, 4, 6},
        d \in {<<0, 0, 1>>, <<0, 0, 0 - 1>>, <<1, 0, 0>>} }

\* initialize before setPosWithWall, the walls 6 or 7 apart
InitWall ==
    /\ sylinderGidIndex = NoIndex
    /\ runConfig \in
         { [dt |-> 1, conResTol |-> 1, conMaxIte |-> 1, wallLowZ |-> l, wallHighZ |-> h,
            simBoxLow |-> <<0, 0, 0>>, simBoxHigh |-> <<6, 6, top>>, linkKappa |-> 1,
            sylinderDiameterColRatio |-> 1, sylinderLengthColRatio |-> 1,
            sylinderFixed |-> TRUE, KBT |-> 0, timeSnap |-> 2] :
              l \in BOOLEAN, h \in BOOLEAN, top \in {6, 7} }
    /\ \E rod \in [1..NBodies -> RodsDrawn] :
         sylinderContainer =
           [k \in 1..NBodies |->
              Sylinder(GidOf(k - 1), 1, rod[k].length, <<3 * (k - 1), 0, rod[k].z>>,
                       rod[k].direction, GEO_INVALID_INDEX)]
    /\ stepCount = 0
    /\ pc = "setPosWithWall"
    /\ uniPool = NewCollector
    /\ biPool = NewCollector
    /\ owner = [i \in LoopIds |-> i % NThreads]
    /\ tpos = [t \in ThreadIds |-> 0]
    /\ writes = {}
    /\ mobilityOperator = NullRcp
    /\ velocityNonCon = NullRcp
    /\ cs = NewConstraintSolver
    /\ fault = "none"
    /\ bcqp = NoBCQP
    /\ forcePartNonBrownRcp = NullRcp
    /\ velocityPartNonBrownRcp = NullRcp
    /\ velocityNonBrownRcp = NullRcp
    /\ velocityBrownRcp = NullRcp
    /\ peerRank = "running"
    /\ snapID = 0
    /\ initIter = 0
    /\ commSize = 2
    /\ result = {}
    /\ NoRanks
    /\ NoPacking

NextWall ==
    \/ setPosWithWall
    \/ collectWallEnter
    \/ \E t \in 0..(WallNThreads - 1) : collectWallLow(t)
    \/ \E t \in 0..(WallNThreads - 1) : collectWallHigh(t)
    \/ collectWallReturn

SpecWall == InitWall /\ [][NextWall]_vars

(***************************************************************************)
(* The BCQP solve on its own: the solver is set up on collectors drawn     *)
(* from small sets of blocks, with any sign of delta0, of the initial      *)
(* multiplier and of the non-constraint velocity                           *)
(***************************************************************************)
MaxUniBlocks == 2   \* unilateral blocks of a drawn problem
MaxBiBlocks == 1    \* bilateral blocks of a drawn problem

\* a wall-like block on body 0 with normal (0, 0, n)
DrawnUniBlocks ==
    { ConstraintBlock(d, g, GidOf(0), GidOf(0) + 1, 0, 1, <<0, 0, n>>, ZERO3,
                      ZERO3, ZERO3, ZERO3, ZERO3, TRUE, KappaUnset) :
        d \in {0 - 4}, g \in {0 - 1, 4}, n \in {0 - 1, 1} }

\* a spring along z between body 0 and body NBodies - 1
DrawnBiBlocks ==
    { ConstraintBlock(d, 0 - d, GidOf(0), GidOf(NBodies - 1), 0, NBodies - 1,
                      <<0, 0, 1>>, <<0, 0, 0 - 1>>,
                      ZERO3, ZERO3, ZERO3, ZERO3, FALSE, 1) :
        d \in {0 - 8, 8} }

SeqsUpTo(S, n) == UNION { [1..m -> S] : m \in 0..n }

DrawnBodies ==
    [k \in 1..NBodies |->
       [Sylinder(GidOf(k - 1), 1, 2, <<3 * (k - 1), 0, 3>>, <<0, 0, 1>>, GEO_INVALID_INDEX)
          EXCEPT !.globalIndex = k - 1]]

InitBCQP ==
    /\ sylinderGidIndex = NoIndex
    /\ runConfig \in {c \in RunConfigs : c.dt = 1 /\ c.conResTol = 1 /\ c.conMaxIte >= 1
                                          /\ c.wallLowZ /\ c.wallHighZ /\ c.KBT = 0}
    /\ sylinderContainer = DrawnBodies
    /\ stepCount = 0
    /\ pc = "bcqp"
    /\ \E ub \in SeqsUpTo(DrawnUniBlocks, MaxUniBlocks) :
         uniPool = [t \in 1..NThreads |-> IF t = 1 THEN ub ELSE <<>>]
    /\ \E bb \in SeqsUpTo(DrawnBiBlocks, MaxBiBlocks) :
         biPool = [t \in 1..NThreads |-> IF t = NThreads THEN bb ELSE <<>>]
    /\ owner = [i \in LoopIds |-> 0]
    /\ tpos = [t \in ThreadIds |-> 0]
    /\ writes = {}
    /\ mobilityOperator = calcMobOperator(DrawnBodies)
    /\ \E vz \in {0 - 1, 0, 1} :
         velocityNonCon = [d \in 1..(6 * NBodies) |-> IF d = 3 THEN vz ELSE 0]
    /\ cs = setControlParams(
              setup(NewConstraintSolver, uniPool, biPool, mobilityOperator,
                    velocityNonCon, runConfig.dt),
              runConfig.conResTol, runConfig.conMaxIte)
    /\ fault = "none"
    /\ bcqp = BCQPStart(cs)
    /\ forcePartNonBrownRcp = NullRcp
    /\ velocityPartNonBrownRcp = NullRcp
    /\ velocityNonBrownRcp = NullRcp
    /\ velocityBrownRcp = NullRcp
    /\ peerRank = "running"
    /\ snapID = 0
    /\ initIter = 0
    /\ commSize = 2
    /\ result = {}
    /\ NoRanks
    /\ NoPacking

NextBCQP ==
    \/ BCQPStep
    \/ resolveSolved

SpecBCQP == InitBCQP /\ [][NextBCQP]_vars

\* an iteration that can be taken is taken
FairSpecBCQP == SpecBCQP /\ WF_vars(BCQPStep)

(***************************************************************************)
(* All ranks of the job together: the bodies each rank holds, the maps     *)
(* built from the local sizes, and the collective routines that move,      *)
(* add and number bodies                                                   *)
(***************************************************************************)
NRanks == 2        \* ranks of the communicator
MaxGlobal == 4     \* bodies over all ranks
MaxInitial == 2    \* bodies read by rank 0 at the start
MaxNew == 2        \* bodies one rank passes to one addNewSylinder

\* rank r is entry r + 1 of a per-rank sequence
RankSeq == 1..NRanks

\* volumes of the bodies explored
Volumes == {1, 2}

\* the fields of a body that the map and gid routines read or write
RankBody(gid_, volume_) == [gid |-> gid_, globalIndex |-> GEO_INVALID_INDEX, volume |-> volume_]

LocalSizes(containers) == [r \in RankSeq |-> Len(containers[r])]
Total(sizes) == SumOver(sizes, NRanks)

\* getTMAPFromLocalSize: the contiguous map over the communicator in which the
\* entries of a rank follow those of all lower ranks
getTMAPFromLocalSize(sizes, r) ==
    [minGlobalIndex |-> SumOver([q \in RankSeq |-> IF q < r THEN sizes[q] ELSE 0], NRanks),
     numLocalElements |-> sizes[r],
     numGlobalElements |-> Total(sizes)]

\* remove entry k of a sequence
RemoveAt(s, k) == SubSeq(s, 1, k - 1) \o SubSeq(s, k + 1, Len(s))

\* what exchangeSylinder can leave: the domain decomposition sends any body to
\* any other rank (here at most one body per call); the body keeps its fields
Exchanged(containers) ==
    {containers} \cup
    { [r \in RankSeq |->
         IF r = m[1] THEN RemoveAt(containers[r], m[3])
         ELSE IF r = m[2] THEN Append(containers[r], containers[m[1]][m[3]])
         ELSE containers[r]] :
        m \in { x \in RankSeq \X RankSeq \X (1..MaxGlobal) :
                  x[1] # x[2] /\ x[3] <= Len(containers[x[1]]) } }

\* no value of calcPtclVol is held: the bodies changed since it returned
NoVolume == <<>>

\* the single-rank driver is not running
IdleDriver ==
    /\ sylinderGidIndex = NoIndex
    /\ runConfig \in {c \in RunConfigs : c.dt = 1 /\ c.conResTol = 1 /\ c.conMaxIte = 1
                                          /\ c.wallLowZ /\ c.wallHighZ /\ c.KBT = 0}
    /\ sylinderContainer = <<>>
    /\ stepCount = 0
    /\ uniPool = NewCollector
    /\ biPool = NewCollector
    /\ owner = [i \in LoopIds |-> 0]
    /\ tpos = [t \in ThreadIds |-> 0]
    /\ writes = {}
    /\ mobilityOperator = NullRcp
    /\ velocityNonCon = NullRcp
    /\ cs = NewConstraintSolver
    /\ fault = "none"
    /\ bcqp = NoBCQP
    /\ forcePartNonBrownRcp = NullRcp
    /\ velocityPartNonBrownRcp = NullRcp
    /\ velocityNonBrownRcp = NullRcp
    /\ velocityBrownRcp = NullRcp
    /\ peerRank = "running"
    /\ snapID = 0
    /\ initIter = 0

\* initialize before the first exchange: all bodies are on rank 0
InitRanks ==
    /\ IdleDriver
    /\ NoPacking
    /\ commSize = NRanks
    /\ result = {}
    /\ pc = "ranks"
    /\ \E n \in 1..MaxInitial, vol \in [1..MaxInitial -> Volumes] :
         rankContainer = [r \in RankSeq |->
                            IF r = 1 THEN [k \in 1..n |-> RankBody(GidOf(k - 1), vol[k])]
                            ELSE <<>>]
    /\ sylinderMapRcp = [r \in RankSeq |-> NullRcp]
    /\ sylinderMobilityMapRcp = [r \in RankSeq |-> NullRcp]
    /\ glbPtclVol = NoVolume

\* exchangeSylinder called on all ranks
exchangeSylinder ==
    /\ pc \in {"ranks", "ranksPrepared"}
    /\ rankContainer' \in Exchanged(rankContainer) \ {rankContainer}
    /\ glbPtclVol' = NoVolume
    /\ pc' = "ranks"
    /\ UNCHANGED <<sylinderGidIndex, runConfig, sylinderContainer, stepCount, uniPool, biPool, owner,
                   tpos, writes, mobilityOperator, velocityNonCon, cs, fault, bcqp, inputs, peerRank,
                   snapID, initIter, commSize, result, sylinderMapRcp, sylinderMobilityMapRcp, packVars>>

\* prepareStep called on all ranks, up to calcMobOperator: exchangeSylinder,
\* then updateSylinderMap builds the two maps from the local sizes and numbers
\* the local bodies from the base of the rank
prepareStepRanks ==
    /\ pc \in {"ranks", "ranksPrepared"}
    /\ \E moved \in Exchanged(rankContainer) :
         LET sizes == LocalSizes(moved)
         IN  /\ sylinderMapRcp' = [r \in RankSeq |-> getTMAPFromLocalSize(sizes, r)]
             /\ sylinderMobilityMapRcp' =
                  [r \in RankSeq |->
                     getTMAPFromLocalSize([q \in RankSeq |-> sizes[q] * 6], r)]
             /\ rankContainer' =
                  [r \in RankSeq |->
                     updateSylinderMapOn(moved[r], getTMAPFromLocalSize(sizes, r).minGlobalIndex)]
    /\ glbPtclVol' = NoVolume
    /\ pc' = "ranksPrepared"
    /\ UNCHANGED <<sylinderGidIndex, runConfig, sylinderContainer, stepCount, uniPool, biPool, owner,
                   tpos, writes, mobilityOperator, velocityNonCon, cs, fault, bcqp, inputs, peerRank,
                   snapID, initIter, commSize, result, packVars>>

\* getMaxGid: the second of the pair, the largest gid over all ranks, at least 0
RECURSIVE MaxGidLocal(_, _)
MaxGidLocal(container, n) ==
    IF n = 0 THEN 0 ELSE Max(MaxGidLocal(container, n - 1), container[n].gid)

RECURSIVE MaxGidUpTo(_, _)
MaxGidUpTo(containers, r) ==
    IF r = 0 THEN 0
    ELSE Max(MaxGidUpTo(containers, r - 1), MaxGidLocal(containers[r], Len(containers[r])))

getMaxGid(containers) == MaxGidUpTo(containers, NRanks)

\* what std::random_shuffle can leave in newID on rank 0: 0..n-1 in any order
Shuffled(n) == { f \in [1..n -> 0..(n - 1)] : \A i, j \in 1..n : f[i] = f[j] => i = j }

\* variant: every rank reads newID from its start
displ_Zero(newNumber, r) == 0

\* displ on rank 0: the partial sums of the gathered counts
displ(newNumber, r) ==
    SumOver([q \in RankSeq |-> IF q < r THEN newNumber[q] ELSE 0], NRanks)

\* addNewSylinder called on all ranks, rank r passing newNumber[r] bodies and no
\* linkage: rank 0 shuffles the ids, MPI_Scatterv hands rank r its newNumber[r]
\* ids from displ[r] on, and the bodies are added with gid = id + 1 + maxGidGlobal
addNewSylinder ==
    /\ pc \in {"ranks", "ranksPrepared"}
    /\ \E newNumber \in [RankSeq -> 0..MaxNew] :
         /\ Total(newNumber) >= 1
         /\ Total(LocalSizes(rankContainer)) + Total(newNumber) <= MaxGlobal
         /\ \E newID \in Shuffled(Total(newNumber)) :
              LET maxGidGlobal == getMaxGid(rankContainer)
                  newIDRecv == [r \in RankSeq |->
                                  [i \in 1..newNumber[r] |-> newID[displ(newNumber, r) + i]]]
              IN  rankContainer' =
                    [r \in RankSeq |->
                       rankContainer[r] \o
                         [i \in 1..newNumber[r] |->
                            RankBody(newIDRecv[r][i] + 1 + maxGidGlobal, 1)]]
    /\ glbPtclVol' = NoVolume
    /\ pc' = "ranks"
    /\ UNCHANGED <<sylinderGidIndex, runConfig, sylinderContainer, stepCount, uniPool, biPool, owner,
                   tpos, writes, mobilityOperator, velocityNonCon, cs, fault, bcqp, inputs, peerRank,
                   snapID, initIter, commSize, result, sylinderMapRcp, sylinderMobilityMapRcp, packVars>>

\* the loop of calcPtclVol on one rank: the sum of getVolume() over its particles
lclPtclVol(container) == SumOver([k \in 1..Len(container) |-> container[k].volume], Len(container))

\* the sum MPI_Allreduce(MPI_SUM) forms over the ranks
AllreduceSum(containers) == SumOver([r \in RankSeq |-> lclPtclVol(containers[r])], NRanks)

\* calcPtclVol called on all ranks.  glbPtclVol is a copy of lclPtclVol taken
\* before the reduction, and the reduction is handed lclPtclVol by value where
\* the address of the receive buffer is expected: the call either fails in the
\* library or returns, and what it returns is the copy.
calcPtclVol ==
    /\ pc \in {"ranks", "ranksPrepared"}
    /\ glbPtclVol = NoVolume
    /\ \E failed \in BOOLEAN :
         IF failed
         THEN /\ fault' = "MPI_Allreduce"
              /\ pc' = "aborted"
              /\ glbPtclVol' = glbPtclVol
         ELSE /\ glbPtclVol' = [r \in RankSeq |-> lclPtclVol(rankContainer[r])]
              /\ pc' = pc
              /\ fault' = fault
    /\ UNCHANGED <<sylinderGidIndex, runConfig, sylinderContainer, stepCount, uniPool, biPool, owner,
                   tpos, writes, mobilityOperator, velocityNonCon, cs, bcqp, inputs, peerRank,
                   snapID, initIter, commSize, result, rankContainer, sylinderMapRcp,
                   sylinderMobilityMapRcp, packVars>>

NextRanks ==
    \/ exchangeSylinder
    \/ prepareStepRanks
    \/ addNewSylinder
    \/ calcPtclVol

SpecRanks == InitRanks /\ [][NextRanks]_vars

(***************************************************************************)
(* Particle_test: particles are packed one after another into one msgpack  *)
(* buffer and unpacked from it until its end                               *)
(***************************************************************************)
MaxPar == 2   \* particles packed (npar)

\* values of the integer fields explored: one per msgpack integer format
\* (positive fixint, uint 8, uint 16, negative fixint)
FieldValues == {0, 99, 200, 300, GEO_INVALID_INDEX}

\* Sph::radius, a double with the default 5
SphRadius == 5

\* a Particle<Sph> with the fields the test fills and compares
ParticlesDrawn ==
    { [gid |-> g, globalIndex |-> x, group |-> y, rank |-> 0, radius |-> SphRadius] :
        g \in FieldValues, x \in {0, 200}, y \in {99, GEO_INVALID_INDEX} }

\* variant: an integer is packed without its sign
packInt_Unsigned(v) ==
    IF Abs(v) < 128 THEN <<Abs(v)>>
    ELSE IF Abs(v) < 256 THEN <<204, Abs(v)>>
    ELSE <<205, Abs(v) \div 256, Abs(v) % 256>>

\* msgpack::pack of an integer: the shortest format that holds it
packInt(v) ==
    IF v >= 0 /\ v < 128 THEN <<v>>                       \* positive fixint
    ELSE IF v < 0 /\ v >= 0 - 32 THEN <<256 + v>>         \* negative fixint
    ELSE IF v >= 128 /\ v < 256 THEN <<204, v>>           \* uint 8
    ELSE <<205, v \div 256, v % 256>>                     \* uint 16

\* msgpack::pack of the double 5.0: float 64, big-endian IEEE 754
packDouble(x) == <<203, 64, 20, 0, 0, 0, 0, 0, 0>>

\* msgpack::pack(sbuf, particle): an array of the fields, the shape an array
\* of its own (MSGPACK_DEFINE(radius))
pack(p) ==
    <<144 + 5>> \o packInt(p.gid) \o packInt(p.globalIndex) \o packInt(p.group)
      \o packInt(p.rank) \o <<144 + 1>> \o packDouble(p.radius)

\* the integer that starts at buf[at] and the place after it
unpackInt(buf, at) ==
    LET b == buf[at]
    IN  IF b < 128 THEN [value |-> b, next |-> at + 1]
        ELSE IF b >= 224 THEN [value |-> b - 256, next |-> at + 1]
        ELSE IF b = 204 THEN [value |-> buf[at + 1], next |-> at + 2]
        ELSE [value |-> buf[at + 1] * 256 + buf[at + 2], next |-> at + 3]

\* the double that starts at buf[at]
unpackDouble(buf, at) ==
    [value |-> IF SubSeq(buf, at, at + 8) = packDouble(SphRadius) THEN SphRadius ELSE 0,
     next |-> at + 9]

\* msgpack::unpack(data, len, off) followed by as<Par>(): the particle that
\* starts at offset o (0-based) and the offset after it
unpack(buf, o) ==
    LET f1 == unpackInt(buf, o + 2)
        f2 == unpackInt(buf, f1.next)
        f3 == unpackInt(buf, f2.next)
        f4 == unpackInt(buf, f3.next)
        sh == unpackDouble(buf, f4.next + 1)
    IN  [particle |-> [gid |-> f1.value, globalIndex |-> f2.value, group |-> f3.value,
                       rank |-> f4.value, radius |-> sh.value],
         off |-> sh.next - 1]

RECURSIVE packAll(_, _)
packAll(ps, n) == IF n = 0 THEN <<>> ELSE packAll(ps, n - 1) \o pack(ps[n])

\* the particles are filled, nothing is packed
InitPack ==
    /\ IdleDriver
    /\ NoRanks
    /\ commSize = 1
    /\ result = {}
    /\ pc = "pack"
    /\ particles \in SeqsUpTo(ParticlesDrawn, MaxPar)
    /\ sbuf = <<>>
    /\ particles_verify = <<>>
    /\ off = 0

packParticles ==
    /\ pc = "pack"
    /\ sbuf' = packAll(particles, Len(particles))
    /\ pc' = "unpack"
    /\ UNCHANGED <<sylinderGidIndex, runConfig, sylinderContainer, stepCount, uniPool, biPool, owner,
                   tpos, writes, mobilityOperator, velocityNonCon, cs, fault, bcqp, inputs, peerRank,
                   snapID, initIter, commSize, result, ranksVars, particles, particles_verify, off>>

\* one iteration of while (off < len)
unpackParticle ==
    /\ pc = "unpack"
    /\ off < Len(sbuf)
    /\ particles_verify' = Append(particles_verify, unpack(sbuf, off).particle)
    /\ off' = unpack(sbuf, off).off
    /\ UNCHANGED <<sylinderGidIndex, runConfig, sylinderContainer, stepCount, pc, uniPool, biPool, owner,
                   tpos, writes, mobilityOperator, velocityNonCon, cs, fault, bcqp, inputs, peerRank,
                   snapID, initIter, commSize, result, ranksVars, particles, sbuf>>

\* the end of the loop and the comparison of the sizes
unpackDone ==
    /\ pc = "unpack"
    /\ ~(off < Len(sbuf))
    /\ pc' = IF Len(particles) # Len(particles_verify) THEN "exit" ELSE "verified"
    /\ UNCHANGED <<sylinderGidIndex, runConfig, sylinderContainer, stepCount, uniPool, biPool, owner,
                   tpos, writes, mobilityOperator, velocityNonCon, cs, fault, bcqp, inputs, peerRank,
                   snapID, initIter, commSize, result, ranksVars, packVars>>

NextPack ==
    \/ packParticles
    \/ unpackParticle
    \/ unpackDone

SpecPack == InitPack /\ [][NextPack]_vars

(***************************************************************************)
(* Snapshots: the runs of one rank, and a caller that writes one snapshot  *)
(* after another on a communicator of any size                             *)
(***************************************************************************)
\* communicator sizes explored: folders of 400, 200, 133, 57, 2 and 1 snapshots
CommSizes == {1, 2, 3, 7, 200, 400, 401}

InitSnapshots ==
    /\ IdleDriver
    /\ NoRanks
    /\ NoPacking
    /\ commSize \in CommSizes
    /\ result = {}
    /\ pc = "snapshots"

InitSnap == InitRun \/ InitSnapshots

SpecSnap == InitSnap /\ [][NextRun]_vars

(***************************************************************************)
(* Properties                                                              *)
(***************************************************************************)
\* index of the first block of pool p (1-based) in the concatenation, minus 1
Offset(pool, p) == SumSeq([r \in 1..(p - 1) |-> Len(pool[r])])

\* every block of the pool holds the entry of the slice at its place in the
\* concatenation pool 0, pool 1, ...
GammaWritten(pool, gammaSlice) ==
    \A p \in 1..Len(pool) : \A b \in 1..Len(pool[p]) :
        pool[p][b].gamma = gammaSlice[Offset(pool, p) + b]

GammaU == SubSeq(cs.gamma, 1, cs.nUni)
GammaB == SubSeq(cs.gamma, cs.nUni + 1, cs.nUni + cs.nBi)

LifecyclePath ==
    { <<"fresh", "configured">>, <<"configured", "setup_done">>,
      <<"setup_done", "solved">>, <<"solved", "written">>, <<"written", "fresh">> }

\* C1: in every time step the calls made on the solver follow fresh ->
\* configured -> setup_done -> solved -> written -> fresh: every change of the
\* solver's state is an edge of that path, so setup is only ever called on a
\* configured solver and reset precedes the next step's setup.
C1_Original ==
    [][cs'.lifecycle # cs.lifecycle => <<cs.lifecycle, cs'.lifecycle>> \in LifecyclePath]_vars

\* C2: a solve that stops on maxIte with the residual above the tolerance is
\* not fatal: the solver becomes solved, the driver calls writebackGamma and
\* the blocks of both collectors receive their gamma.
C2_NonConvergenceWritesBack ==
    /\ (pc = "bcqp" /\ bcqp.reason = "none") => bcqp.ite < cs.maxIte
    /\ (pc = "bcqp" /\ bcqp.reason = "maxIte") => ~Converged(cs, bcqp.x)
    /\ (bcqp.reason = "maxIte" /\ pc = "writebackGamma") =>
          /\ fault = "none"
          /\ cs.lifecycle = "solved"
          /\ cs.gamma = bcqp.x
    /\ (bcqp.reason = "maxIte" /\ pc = "saveVelocityConstraints") =>
          /\ fault = "none"
          /\ cs.lifecycle = "written"
          /\ GammaWritten(uniPool, GammaU)
          /\ GammaWritten(biPool, GammaB)

\* C2 witness: gamma written back to blocks of both collectors after a solve
\* that ran out of iterations with a residual above the tolerance
C2_Witness ==
    /\ pc = "saveVelocityConstraints"
    /\ bcqp.reason = "maxIte"
    /\ bcqp.residual > cs.res * cs.res * Max(1, Norm2(buildGammaInit(uniPool) \o buildGammaInit(biPool)))
    /\ count(uniPool) > 0
    /\ count(biPool) > 0
    /\ cs.lifecycle = "written"

\* C3: InvalidInput and AssemblyInconsistency leave the solver fresh, a
\* NumericFailure leaves it in setup_done with q and the initial gamma as
\* setup built them, and no fatal fault leaves it solved or written.
C3_Original ==
    /\ fault \in {"InvalidInput", "AssemblyInconsistency"} => cs.lifecycle = "fresh"
    /\ fault = "NumericFailure" =>
          /\ cs.lifecycle = "setup_done"
          /\ cs.q = VecAdd(cs.delta0, cs.deltanc)
          /\ cs.gamma = Project(buildGammaInit(uniPool) \o buildGammaInit(biPool), cs.nUni)
    /\ fault # "none" => cs.lifecycle \notin {"solved", "written"}

\* C4: setControlParams with res <= 0 or maxIte < 1, and setup with dt <= 0,
\* report InvalidInput and leave every stored field of the solver as it was.
C4_Original ==
    [][ /\ (pc = "setControlParams" /\ pc' # pc
              /\ (runConfig.conResTol <= 0 \/ runConfig.conMaxIte < 1))
           => (fault' = "InvalidInput" /\ cs' = cs)
        /\ (pc = "setup" /\ pc' # pc /\ runConfig.dt <= 0)
           => (fault' = "InvalidInput" /\ cs' = cs) ]_vars

\* C5: every unilateral multiplier is >= 0 in the initial gamma, in every
\* iterate and in the gamma returned; bilateral multipliers are not clipped:
\* the initial ones are the blocks' own and a step leaves them at
\* gamma - alpha g whatever the sign.
C5_UniNonNeg ==
    /\ \A k \in 1..cs.nUni : cs.gamma[k] >= 0
    /\ pc = "bcqp" => /\ \A k \in 1..cs.nUni : bcqp.x[k] >= 0
                      /\ \A k \in 1..cs.nBi : cs.gamma[cs.nUni + k] = Concat(biPool)[k].gamma
    /\ pc = "writebackGamma" => cs.gamma = bcqp.x

C5_BilateralFree ==
    (pc = "bcqp" /\ bcqp'.ite = bcqp.ite + 1) =>
       \E alphaDen \in AlphaChoices(cs) :
          \A k \in (cs.nUni + 1)..(cs.nUni + cs.nBi) :
             bcqp'.x[k] = bcqp.x[k] - (Gradient(cs, bcqp.x)[k] \div alphaDen)

C5_Feasible == []C5_UniNonNeg /\ [][C5_BilateralFree]_vars

\* C5 witness: after a step a unilateral multiplier sits on its bound while a
\* bilateral one is negative
C5_Witness ==
    /\ pc = "bcqp"
    /\ bcqp.ite >= 1
    /\ bcqp.reason # "numeric_failure"
    /\ \E k \in 1..cs.nUni : bcqp.x[k] = 0 /\ Concat(uniPool)[k].gamma < 0
    /\ \E k \in (cs.nUni + 1)..(cs.nUni + cs.nBi) : bcqp.x[k] < 0

\* C6: the BCQP solve ends after at most maxIte iterations with one of the
\* three termination reasons, and reports the residual of its last iterate
\* and an iteration count <= maxIte.
C6_Bounded ==
    /\ bcqp.ite <= cs.maxIte
    /\ bcqp.reason \in {"none", "converged", "maxIte", "numeric_failure"}
    /\ bcqp.residual = Residual2(cs, bcqp.x)

C6_Terminates == []C6_Bounded /\ <>(bcqp.reason # "none")

\* C6 witness: the solve has used all maxIte iterations and stopped
C6_Witness ==
    /\ pc = "bcqp"
    /\ bcqp.reason = "maxIte"
    /\ bcqp.ite = cs.maxIte
    /\ bcqp.ite >= 2

\* C7: row k of D^T, entry k of delta0 and entry k of gamma belong to the
\* k-th block of the concatenation pool 0, pool 1, ...; writebackGamma stores
\* gamma_k in exactly that block, the bilateral entries following the
\* unilateral ones.
C7_RowsFollowPools ==
    /\ pc \in {"setControlParams", "solveConstraints", "bcqp", "writebackGamma",
               "saveVelocityConstraints"} =>
          /\ cs.nUni = count(uniPool) /\ cs.nBi = count(biPool)
          /\ \A p \in 1..Len(uniPool) : \A b \in 1..Len(uniPool[p]) :
                LET k == Offset(uniPool, p) + b
                IN  /\ cs.DuMatTrans[k] = BlockRow(uniPool[p][b], Len(cs.mobOp))
                    /\ cs.delta0[k] = uniPool[p][b].delta0
                    /\ pc = "setControlParams" => cs.gamma[k] = Max(uniPool[p][b].gamma, 0)
                    /\ pc = "saveVelocityConstraints" => uniPool[p][b].gamma = cs.gamma[k]
          /\ \A p \in 1..Len(biPool) : \A b \in 1..Len(biPool[p]) :
                LET k == Offset(biPool, p) + b
                IN  /\ cs.DbMatTrans[k] = BlockRow(biPool[p][b], Len(cs.mobOp))
                    /\ cs.delta0[cs.nUni + k] = biPool[p][b].delta0
                    /\ pc = "setControlParams" => cs.gamma[cs.nUni + k] = biPool[p][b].gamma
                    /\ pc = "saveVelocityConstraints" =>
                          biPool[p][b].gamma = cs.gamma[cs.nUni + k]

\* C7 witness: gamma written back to unilateral blocks of two pools that
\* received different multipliers, and to a bilateral block
C7_Witness ==
    /\ pc = "saveVelocityConstraints"
    /\ \E p1, p2 \in 1..Len(uniPool) :
          /\ p1 < p2 /\ uniPool[p1] # <<>> /\ uniPool[p2] # <<>>
          /\ uniPool[p1][1].gamma # uniPool[p2][1].gamma
          /\ uniPool[p1][1].delta0 # uniPool[p2][1].delta0
    /\ count(biPool) > 0

\* C8: clear() leaves a collector with no block and with its pools, one per
\* worker thread, after any appends and clears; so every thread id that
\* collectWallCollision uses has a pool.
C8_ClearKeepsPools ==
    /\ Len(uniPool) = NThreads
    /\ Len(biPool) = NThreads
    /\ pc = "prepared" => count(uniPool) = 0 /\ count(biPool) = 0
    /\ pc \in {"wallLow", "wallHigh"} =>
          \A t \in 0..(WallNThreads - 1) : WallPoolOf(t) + 1 \in DOMAIN uniPool

\* C8 witness: the wall region is entered in a step whose prepareStep cleared
\* collectors that the step before had filled
C8_Witness ==
    /\ pc \in {"wallLow", "wallHigh"}
    /\ stepCount >= 1
    /\ cs.nUni > 0
    /\ cs.nBi > 0

\* blocks that the iterations of thread t append, in loop order from index i
RECURSIVE OwnedBlocks(_, _, _)
OwnedBlocks(t, region, i) ==
    IF i >= NBodies THEN <<>>
    ELSE (IF owner[i] # t THEN <<>>
          ELSE IF region = "link" THEN LinkBlocks(sylinderContainer[i + 1])
          ELSE WallBlocks(region, sylinderContainer[i + 1]))
         \o OwnedBlocks(t, region, i + 1)

\* C9: in the parallel regions of collectWallCollision and of
\* collectLinkBilateral thread t writes pool t only and t is below the pool
\* count, in every interleaving: no pool has two writers, and a step of a
\* thread changes its own pool alone, by appending the blocks of the iteration
\* it ran (or by the clear that opens the link region), so no block is lost
\* or duplicated.
C9_OwnPool ==
    /\ \A w \in writes : w[2] = w[1] /\ w[2] < Len(uniPool) /\ w[2] < Len(biPool)
    /\ \A w1, w2 \in writes : w1[2] = w2[2] => w1[1] = w2[1]
    /\ pc = "linkStep2" =>
          \A t \in ThreadIds : biPool[t + 1] = OwnedBlocks(t, "link", 0)

C9_ThreadStep ==
    (pc \in {"wallLow", "wallHigh", "linkParallel"} /\ pc' = pc) =>
       \A t \in ThreadIds :
          IF tpos'[t] = tpos[t]
          THEN uniPool'[t + 1] = uniPool[t + 1] /\ biPool'[t + 1] = biPool[t + 1]
          ELSE /\ pc = "wallLow" =>
                    /\ uniPool'[t + 1] = uniPool[t + 1] \o WallLowBlocks(sylinderContainer[tpos'[t]])
                    /\ biPool' = biPool
               /\ pc = "wallHigh" =>
                    /\ uniPool'[t + 1] = uniPool[t + 1] \o WallHighBlocks(sylinderContainer[tpos'[t]])
                    /\ biPool' = biPool
               /\ pc = "linkParallel" =>
                    /\ biPool'[t + 1] = IF tpos[t] = NotCleared THEN <<>>
                                        ELSE biPool[t + 1] \o LinkBlocks(sylinderContainer[tpos'[t]])
                    /\ uniPool' = uniPool

C9_NoCrossThreadWrite == []C9_OwnPool /\ [][C9_ThreadStep]_vars

\* C9 witness: the link region has ended after two threads cleared and one
\* appended, and the wall regions before it filled two pools
C9_Witness ==
    /\ pc = "linkStep2"
    /\ count(biPool) > 0
    /\ \A t \in ThreadIds : <<t, t>> \in writes
    /\ \E t1, t2 \in ThreadIds :
          t1 # t2 /\ uniPool[t1 + 1] # <<>> /\ uniPool[t2 + 1] # <<>>

\* the unilateral collector when collectWallCollision returns in a time step,
\* as a function of the assignment of bodies to threads alone
WallPoolsExpected ==
    [p \in 1..NThreads |->
       calcForceAll(NewCollector, sylinderContainer, "contact", 1)[p]
       \o (IF runConfig.wallLowZ THEN OwnedBlocks(p - 1, "low", 0) ELSE <<>>)
       \o (IF runConfig.wallHighZ THEN OwnedBlocks(p - 1, "high", 0) ELSE <<>>)]

\* C10: for a fixed thread count and assignment of loop indices to threads
\* the concatenation of the pools after collectWallCollision is the same in
\* every interleaving: thread by thread, each in insertion order.
C10_OrderReproducible ==
    pc = "setup" =>
       /\ uniPool = WallPoolsExpected
       /\ Concat(uniPool) = Concat(WallPoolsExpected)

\* C10 witness: collectWallCollision has returned after two threads appended
\* blocks of both walls
C10_Witness ==
    /\ pc = "setup"
    /\ runConfig.wallLowZ /\ runConfig.wallHighZ
    /\ \E t1, t2 \in ThreadIds :
          t1 # t2 /\ Len(uniPool[t1 + 1]) >= 2 /\ Len(uniPool[t2 + 1]) >= 2

\* the two ends of a rod and their signed distances to a wall: distance along
\* the outward normal minus the radius
EndDistances(wall, sy) ==
    LET Pm == Vsub(sy.pos, Vscale(sy.direction, sy.lengthCollision \div 2))
        Pp == Vadd(sy.pos, Vscale(sy.direction, sy.lengthCollision \div 2))
    IN  [Pm |-> Pm, Pp |-> Pp,
         dm |-> IF wall = "low" THEN Pm[3] - runConfig.simBoxLow[3] - sy.radius
                ELSE runConfig.simBoxHigh[3] - Pm[3] - sy.radius,
         dp |-> IF wall = "low" THEN Pp[3] - runConfig.simBoxLow[3] - sy.radius
                ELSE runConfig.simBoxHigh[3] - Pp[3] - sy.radius]

\* the wall whose parallel region is running
WallOfPc == IF pc = "wallLow" THEN "low" ELSE "high"

\* C11: for each enabled wall and each rod no block is emitted if both signed
\* end distances are positive; otherwise, the smaller one being exactly 0
\* included, exactly one block is emitted, at the end with the smaller
\* distance (the midpoint when they are equal), with delta0 that distance.
C11_WallStep ==
    (pc \in {"wallLow", "wallHigh"} /\ pc' = pc) =>
       \A t \in ThreadIds :
          tpos'[t] # tpos[t] =>
             LET e == EndDistances(WallOfPc, sylinderContainer[tpos'[t]])
                 loc == IF e.dm < e.dp THEN e.Pm
                        ELSE IF e.dp < e.dm THEN e.Pp ELSE Vhalf(Vadd(e.Pm, e.Pp))
             IN  IF e.dm > 0 /\ e.dp > 0
                 THEN uniPool' = uniPool
                 ELSE \E p \in 1..Len(uniPool) :
                         /\ Len(uniPool'[p]) = Len(uniPool[p]) + 1
                         /\ uniPool' = [uniPool EXCEPT ![p] = Append(@, uniPool'[p][Len(uniPool'[p])])]
                         /\ uniPool'[p][Len(uniPool'[p])].delta0 = Min(e.dm, e.dp)
                         /\ uniPool'[p][Len(uniPool'[p])].labI = loc

C11_Original == [][C11_WallStep]_vars

\* the blocks of a collector, pool after pool
BlocksOf(pool) == {Concat(pool)[k] : k \in 1..count(pool)}

\* C12: every block emitted by collectWallCollision has oneSide = true,
\* normJ = posJ = (0,0,0), normI = (0,0,+1) for the lower and (0,0,-1) for the
\* upper wall, posI = contact point minus rod centre and gammaInit = -delta0;
\* with both wall flags false the unilateral collector gets no wall block,
\* and with one flag set only blocks of that wall's normal.
C12_WallStep ==
    (pc \in {"wallLow", "wallHigh"} /\ pc' = pc) =>
       \A t \in ThreadIds :
          tpos'[t] # tpos[t] =>
             \A b \in (Len(uniPool[t + 1]) + 1)..Len(uniPool'[t + 1]) :
                LET block == uniPool'[t + 1][b]
                IN  /\ block.oneSide = TRUE
                    /\ block.normJ = ZERO3
                    /\ block.posJ = ZERO3
                    /\ block.normI = IF pc = "wallLow" THEN <<0, 0, 1>> ELSE <<0, 0, 0 - 1>>
                    /\ block.posI = Vsub(block.labI, sylinderContainer[tpos'[t]].pos)
                    /\ block.gamma = 0 - block.delta0

C12_OnlyEnabledWalls ==
    /\ pc = "wallLow" => runConfig.wallLowZ
    /\ pc = "wallHigh" => runConfig.wallHighZ
    /\ pc = "setup" =>
          \A block \in BlocksOf(uniPool) :
             block.oneSide =>
                \/ runConfig.wallLowZ /\ block.normI = <<0, 0, 1>>
                \/ runConfig.wallHighZ /\ block.normI = <<0, 0, 0 - 1>>

C12_WallBlockFields == [][C12_WallStep]_vars /\ []C12_OnlyEnabledWalls

\* C12 witness: collectWallCollision has returned with the upper wall alone
\* enabled and has emitted a block
C12_Witness ==
    /\ pc = "setup"
    /\ ~runConfig.wallLowZ /\ runConfig.wallHighZ
    /\ \E block \in BlocksOf(uniPool) : block.oneSide /\ block.delta0 < 0

\* the blocks one run of collectWallCollision appends to each pool
WallRunBlocks ==
    [p \in 1..NThreads |->
       (IF runConfig.wallLowZ THEN OwnedBlocks(p - 1, "low", 0) ELSE <<>>)
       \o (IF runConfig.wallHighZ THEN OwnedBlocks(p - 1, "high", 0) ELSE <<>>)]

\* C13: running collectWallCollision twice in a row on unchanged bodies leaves
\* the unilateral collector as one run leaves it: the same wall blocks in the
\* same order, none duplicated, the count not grown.
C13_Original ==
    pc = "prepared" => (uniPool = clear(uniPool) \/ uniPool = WallRunBlocks)

\* C14: when contact generation has finished, from then until the multipliers
\* are written back, every block of the bilateral collector has kappa > 0 (an
\* unset kappa has been replaced by linkKappa) and every block of the
\* unilateral collector has kappa unset, so no block with kappa unset is
\* assembled as a bilateral constraint.
C14_KappaByKind ==
    pc \in {"prepared", "setup", "setControlParams", "solveConstraints", "bcqp", "writebackGamma"} =>
       /\ \A block \in BlocksOf(biPool) : block.kappa > 0
       /\ \A block \in BlocksOf(uniPool) : block.kappa = KappaUnset

\* C14 witness: setup is about to assemble a linkage block that the pair
\* functor emitted with kappa unset, next to a unilateral block
C14_Witness ==
    /\ pc = "setup"
    /\ \E block \in BlocksOf(biPool) : block.kappa = runConfig.linkKappa
    /\ BlocksOf(uniPool) # {}

\* C15: at the time a linkage block is handed to setup its initial multiplier
\* is -kappa * delta0, whether collectLinkBilateral built it with
\* kappa = linkKappa or collectPairCollision replaced its unset kappa.
C15_Original ==
    pc \in {"prepared", "setup"} =>
       \A block \in BlocksOf(biPool) : block.gamma = 0 - (block.kappa * block.delta0)

\* C16: when collectLinkBilateral completes, the bilateral collector holds one
\* block for each local body with a valid link.next and none for a body
\* without a link; every block has oneSide = false, gidI the gid of the body,
\* gidJ its link.next and a resolved globalIndexJ, whether J was in the local
\* index or came from the directory; the k-th unresolved block in pool order
\* is completed from the k-th directory answer, whose gid agrees.
C16_Step ==
    (pc = "linkStep2" /\ pc' = "prepared") =>
       LET pre == Concat(biPool)
           post == Concat(biPool')
           answers == DirectoryFind(GidToFind(biPool))
       IN  /\ \A i \in 1..NBodies :
                Cardinality({j \in 1..Len(post) : post[j].gidI = sylinderContainer[i].gid})
                   = IF sylinderContainer[i].next # GEO_INVALID_INDEX THEN 1 ELSE 0
           /\ \A j \in 1..Len(post) :
                /\ post[j].oneSide = FALSE
                /\ post[j].globalIndexJ # GEO_INVALID_INDEX
                /\ \E i \in 1..NBodies :
                     /\ post[j].gidI = sylinderContainer[i].gid
                     /\ post[j].gidJ = sylinderContainer[i].next
           /\ Len(post) = Len(pre)
           /\ \A j \in 1..Len(pre) :
                LET k == Cardinality({i \in 1..j : pre[i].globalIndexJ = GEO_INVALID_INDEX})
                IN  IF pre[j].globalIndexJ = GEO_INVALID_INDEX
                    THEN /\ post[j].gidJ = answers[k].gid
                         /\ post[j].globalIndexJ = answers[k].globalIndex
                         /\ post[j].gidJ = pre[j].gidJ
                    ELSE post[j] = pre[j]

IsPrefix(a, b) == Len(a) <= Len(b) /\ SubSeq(b, 1, Len(a)) = a

\* C17: between two clear() calls the pools are append-only: no step of
\* contact generation removes a block from a pool or changes a block that is
\* in a pool; only prepareStep (the clear) and the gamma writeback are exempt.
C17_AppendOnlyStep ==
    pc \notin {"prepareStep", "writebackGamma"} =>
       \A p \in 1..NThreads :
          /\ IsPrefix(uniPool[p], uniPool'[p])
          /\ IsPrefix(biPool[p], biPool'[p])

C18_PrepareStep ==
    (pc = "prepareStep" /\ pc' = "prepared") =>
       /\ count(uniPool') = 0
       /\ count(biPool') = 0
       /\ forcePartNonBrownRcp' = NullRcp
       /\ velocityPartNonBrownRcp' = NullRcp
       /\ velocityBrownRcp' = NullRcp

C18_SetupBlocks ==
    pc = "setup" =>
       /\ uniPool = WallPoolsExpected
       /\ biPool = fillLinkKappa(calcForceAll(NewCollector, sylinderContainer, "link", 1),
                                 runConfig.linkKappa)

C18_NoLeak == [][C18_PrepareStep]_vars /\ []C18_SetupBlocks

\* C18 witness: the second step has reached setup with blocks in both
\* collectors, a Brownian velocity and no user force or velocity, after a
\* first step that wrote its multipliers back and was solved with another
\* non-constraint velocity
C18_Witness ==
    /\ stepCount = 1
    /\ pc = "setup"
    /\ count(uniPool) > 0 /\ count(biPool) > 0
    /\ cs.lifecycle = "written"
    /\ cs.velnc # velocityNonCon
    /\ forcePartNonBrownRcp = NullRcp
    /\ velocityPartNonBrownRcp = NullRcp
    /\ velocityBrownRcp # NullRcp

\* C19: when a rank detects a fatal error (an unresolvable or mismatching gid
\* in collectLinkBilateral) all ranks terminate together: in no state has one
\* rank exited while another rank is still running or is waiting in a
\* collective operation.
C19_Original ==
    fault = "exit" => peerRank \notin {"running", "blocked"}

\* entry c (1..6) of body k (1-based) in a 6N vector, 0 for a null vector
EntryOf(v, k, c) == IF v = NullRcp THEN 0 ELSE v[6 * (k - 1) + c]

\* the six entries of body k as a velocity and an angular velocity
VelOf(v, k) == <<EntryOf(v, k, 1), EntryOf(v, k, 2), EntryOf(v, k, 3)>>
OmegaOf(v, k) == <<EntryOf(v, k, 4), EntryOf(v, k, 5), EntryOf(v, k, 6)>>

\* C20: after sumVelocity, for every local body, vel = velNonB + velBrown +
\* velCol + velBi and omega likewise, each part counted once: velNonB and
\* omegaNonB are the non-constraint velocity without its Brownian part,
\* velBrown and omegaBrown the Brownian velocity, velCol/omegaCol and
\* velBi/omegaBi the body's six entries of the unilateral and bilateral
\* constraint velocities of this step's solve.
C20_VelocitySum ==
    pc = "stepEuler" =>
       \A k \in 1..NBodies :
          LET sy == sylinderContainer[k]
          IN  /\ sy.vel = Vadd(Vadd(sy.velNonB, sy.velBrown), Vadd(sy.velCol, sy.velBi))
              /\ sy.omega = Vadd(Vadd(sy.omegaNonB, sy.omegaBrown), Vadd(sy.omegaCol, sy.omegaBi))
              /\ sy.velNonB = Vsub(VelOf(velocityNonCon, k), VelOf(velocityBrownRcp, k))
              /\ sy.omegaNonB = Vsub(OmegaOf(velocityNonCon, k), OmegaOf(velocityBrownRcp, k))
              /\ sy.velBrown = VelOf(velocityBrownRcp, k)
              /\ sy.omegaBrown = OmegaOf(velocityBrownRcp, k)
              /\ sy.velCol = VelOf(cs.velu, k) /\ sy.omegaCol = OmegaOf(cs.velu, k)
              /\ sy.velBi = VelOf(cs.velb, k) /\ sy.omegaBi = OmegaOf(cs.velb, k)
              /\ cs.lifecycle = "written"

\* C20 witness: sumVelocity has run on a body that has a velocity from a user
\* force, a Brownian velocity, a unilateral and a bilateral constraint
\* velocity, all nonzero
C20_Witness ==
    /\ pc = "stepEuler"
    /\ \E k \in 1..NBodies :
          LET sy == sylinderContainer[k]
          IN  /\ sy.velNonB # ZERO3
              /\ sy.velBrown # ZERO3
              /\ sy.velCol # ZERO3
              /\ sy.velBi # ZERO3
              /\ sy.vel # sy.velNonB

\* the <<rank entry, local entry>> pairs of all bodies
AllBodies == { x \in RankSeq \X (1..MaxGlobal) : x[2] <= Len(rankContainer[x[1]]) }

\* number of bodies on the ranks below rank entry r
BaseOfRank(r) == Cardinality({ x \in AllBodies : x[1] < r })

\* C21: when prepareStep has returned on all ranks, the globalIndex values of
\* all bodies are 0..Nglobal-1 with each value on exactly one body, the i-th
\* local body of a rank carries the base of the rank plus i, the base being the
\* number of bodies on lower ranks, and the mobility map of a rank has 6 local
\* entries per local body; whatever exchanges and additions came before.
C21_ContiguousGlobalIndex ==
    pc = "ranksPrepared" =>
      /\ \A g \in 0..(Cardinality(AllBodies) - 1) :
           Cardinality({ x \in AllBodies : rankContainer[x[1]][x[2]].globalIndex = g }) = 1
      /\ \A x \in AllBodies : rankContainer[x[1]][x[2]].globalIndex \in 0..(Cardinality(AllBodies) - 1)
      /\ \A x \in AllBodies :
           /\ rankContainer[x[1]][x[2]].globalIndex = BaseOfRank(x[1]) + (x[2] - 1)
           /\ sylinderMapRcp[x[1]].minGlobalIndex = BaseOfRank(x[1])
      /\ \A r \in RankSeq :
           /\ sylinderMapRcp[r].numLocalElements = Len(rankContainer[r])
           /\ sylinderMobilityMapRcp[r].numLocalElements = 6 * Len(rankContainer[r])
           /\ sylinderMobilityMapRcp[r].minGlobalIndex = 6 * BaseOfRank(r)

\* prepareStep has returned with bodies on every rank, the upper rank holding
\* a body that was added by addNewSylinder and one that was read at the start
C21_Witness ==
    /\ pc = "ranksPrepared"
    /\ \A r \in RankSeq : Len(rankContainer[r]) >= 1
    /\ \E k \in 1..Len(rankContainer[NRanks]) : rankContainer[NRanks][k].gid > GidOf(MaxInitial - 1)
    /\ \E k \in 1..Len(rankContainer[NRanks]) : rankContainer[NRanks][k].gid = GidOf(0)

\* the fields the test compares
SameFields(p, pv) ==
    /\ p.gid = pv.gid
    /\ p.globalIndex = pv.globalIndex
    /\ p.group = pv.group
    /\ p.rank = pv.rank

OrZero(v) == IF v = NullRcp THEN ZeroVec(6 * NBodies) ELSE v

\* C23: from the return of calcVelocityNonCon up to the next prepareStep, the
\* non-constraint velocity (the vector handed to setup) is the Brownian
\* velocity plus the velocity supplied through setVelocityNonBrown plus the
\* mobility applied to the force supplied through setForceNonBrown.
C23_Original ==
    pc \notin {"prepareStep", "prepared", "calcVelocityNonCon"} =>
      velocityNonCon =
        [d \in 1..(6 * NBodies) |->
           OrZero(velocityBrownRcp)[d] + OrZero(velocityPartNonBrownRcp)[d]
             + mobilityOperator[d] * OrZero(forcePartNonBrownRcp)[d]]

\* the place of each position of the driver in one pass of the pipeline
PhaseOf ==
    [p \in {"prepareStep", "prepared", "calcVelocityNonCon", "collectPairCollision", "wallLow",
            "wallHigh", "setup", "setControlParams", "solveConstraints", "bcqp", "writebackGamma",
            "saveVelocityConstraints", "sumVelocity", "writeResult", "stepEuler", "aborted"} |->
       CASE p = "prepareStep" -> 0
         [] p = "prepared" -> 1
         [] p = "calcVelocityNonCon" -> 2
         [] p = "collectPairCollision" -> 3
         [] p = "wallLow" -> 4
         [] p = "wallHigh" -> 5
         [] p = "setup" -> 6
         [] p = "setControlParams" -> 7
         [] p = "solveConstraints" -> 8
         [] p = "bcqp" -> 9
         [] p = "writebackGamma" -> 10
         [] p = "saveVelocityConstraints" -> 11
         [] p = "sumVelocity" -> 12
         [] p = "writeResult" -> 13
         [] p = "stepEuler" -> 14
         [] OTHER -> 15]

Positions(container) == [k \in 1..Len(container) |-> container[k].pos]
ColVelocities(container) ==
    [k \in 1..Len(container) |->
       <<container[k].velCol, container[k].omegaCol, container[k].velBi, container[k].omegaBi>>]
Velocities(container) == [k \in 1..Len(container) |-> <<container[k].vel, container[k].omega>>]

C24_Step ==
    \* the driver only moves forward through the pipeline, stepEuler ends it
    /\ pc' # pc => \/ PhaseOf[pc'] > PhaseOf[pc]
                   \/ pc = "stepEuler" /\ pc' = "prepareStep"
    \* Brownian velocity: only if KBT > 0, and then before calcVelocityNonCon
    /\ (velocityBrownRcp' # velocityBrownRcp /\ velocityBrownRcp' # NullRcp) =>
         runConfig.KBT > 0 /\ pc = "prepared" /\ pc' = "calcVelocityNonCon"
    /\ (pc' = "collectPairCollision" /\ pc # pc' /\ runConfig.KBT > 0 /\ ~InInitialize) =>
         velocityBrownRcp # NullRcp
    \* calcVelocityNonCon: before any block is collected
    /\ velocityNonCon' # velocityNonCon =>
         pc \in {"prepared", "calcVelocityNonCon"} /\ pc' = "collectPairCollision"
         /\ count(uniPool) = 0 /\ count(biPool) = 0
    \* blocks are appended by the pair and wall collection only, before setup
    /\ (count(uniPool') > count(uniPool) \/ count(biPool') > count(biPool)) =>
         pc \in {"collectPairCollision", "wallLow", "wallHigh"}
    \* the solver is set up, solved and written back after the collection
    /\ cs' # cs => pc \in {"setup", "setControlParams", "bcqp", "writebackGamma"}
    /\ (cs'.lifecycle # cs.lifecycle /\ cs'.lifecycle = "written") => cs.lifecycle = "solved"
    /\ (cs'.lifecycle # cs.lifecycle /\ cs'.lifecycle = "solved") => cs.lifecycle = "configured"
    \* per-body constraint velocities are saved after the writeback, summed after that
    /\ ColVelocities(sylinderContainer') # ColVelocities(sylinderContainer) =>
         pc \in {"prepareStep", "saveVelocityConstraints"}
    /\ (pc = "saveVelocityConstraints" /\ pc' # pc) =>
         cs.lifecycle = "written" /\ pc' = "sumVelocity"
    /\ Velocities(sylinderContainer') # Velocities(sylinderContainer) =>
         pc \in {"prepareStep", "sumVelocity"}
    \* writeResult: on snapshot steps only and on each of them, after the solve
    \* of the step and before the positions are advanced
    /\ snapID' # snapID =>
         /\ pc = "writeResult" /\ pc' = "stepEuler"
         /\ ~InInitialize /\ getIfWriteResultCurrentStep
         /\ cs.lifecycle = "written"
         /\ Positions(sylinderContainer') = Positions(sylinderContainer)
    /\ (pc = "sumVelocity" /\ pc' # pc) =>
         pc' = IF ~InInitialize /\ getIfWriteResultCurrentStep THEN "writeResult" ELSE "stepEuler"
    \* positions advance in stepEuler only, and stepCount goes up by 1 with it
    /\ Positions(sylinderContainer') # Positions(sylinderContainer) => pc = "stepEuler"
    /\ stepCount' # stepCount =>
         pc = "stepEuler" /\ pc' = "prepareStep" /\ stepCount' = stepCount + 1 /\ ~InInitialize
    /\ (pc = "stepEuler" /\ pc' # pc /\ ~InInitialize) => stepCount' = stepCount + 1

\* C24: every runStep goes through Brownian velocity (only if KBT > 0),
\* calcVelocityNonCon, pair and wall collection, solver setup, solve and
\* writeback, saving of the per-body constraint velocities, sumVelocity,
\* writeResult (on snapshot steps only), stepEuler and stepCount + 1, in this
\* order; no block is appended after setup, and a snapshot is written after
\* the solve of its step and before any position is advanced.
C24_PipelineOrder == [][C24_Step]_vars

\* a step with thermal noise and moving bodies that is not a snapshot step has
\* collected a wall block, solved, and is about to advance the positions
C24_Witness ==
    /\ pc = "stepEuler"
    /\ ~InInitialize
    /\ ~runConfig.sylinderFixed
    /\ runConfig.KBT > 0
    /\ velocityBrownRcp # NullRcp
    /\ ~getIfWriteResultCurrentStep
    /\ snapID = 1
    /\ count(uniPool) > 0
    /\ cs.lifecycle = "written"

C25_Step ==
    \* inside the loop: no time step counted, no snapshot, no Brownian velocity
    /\ InInitialize =>
         /\ stepCount = 0 /\ snapID = 0 /\ result = {} /\ velocityBrownRcp = NullRcp
         /\ snapID' = 0 /\ result' = {} /\ velocityBrownRcp' = NullRcp
    \* an iteration is counted when its stepEuler is done, one at a time
    /\ initIter' # initIter =>
         InInitialize /\ pc = "stepEuler" /\ pc' = "prepareStep" /\ initIter' = initIter + 1
    \* the loop is left after iteration 100, with both counters at 0
    /\ (InInitialize /\ ~InInitialize') =>
         initIter' = InitIterations /\ stepCount' = 0 /\ snapID' = 0
    /\ (~runConfig.sylinderFixed /\ ~InInitialize) => initIter = InitIterations
    \* fixed bodies: no iteration
    /\ runConfig.sylinderFixed => initIter = 0 /\ initIter' = 0 /\ ~InInitialize

\* C25: with sylinderFixed = false initialize runs exactly 100 resolution
\* iterations, each ending with stepEuler, none of them computing a Brownian
\* velocity or writing a result, and returns with stepCount = 0 and
\* snapID = 0; with sylinderFixed = true it runs no iteration.
C25_InitializeLoop == [][C25_Step]_vars

\* initialize has just returned from its loop, in which two overlapping rods
\* were moved apart, in a run with thermal noise where step 0 is a snapshot step
C25_Witness ==
    /\ ~runConfig.sylinderFixed
    /\ initIter = InitIterations
    /\ runConfig.KBT > 0
    /\ pc = "prepareStep"
    /\ stepCount = 0
    /\ snapID = 0
    /\ getIfWriteResultCurrentStep
    /\ sylinderContainer[1].pos[1] # 0

\* the gids of all bodies, rank after rank
GidsOf(containers) ==
    [r \in RankSeq |-> [k \in 1..Len(containers[r]) |-> containers[r][k].gid]]

C26_Step ==
    GidsOf(rankContainer') # GidsOf(rankContainer) /\ pc' = "ranks"
      /\ LocalSizes(rankContainer') # LocalSizes(rankContainer)
      /\ Total(LocalSizes(rankContainer')) > Total(LocalSizes(rankContainer)) =>
        \* the bodies a rank had keep their place and their gid
        /\ \A r \in RankSeq : IsPrefix(GidsOf(rankContainer)[r], GidsOf(rankContainer')[r])
        \* every new gid is above the largest gid there was
        /\ \A r \in RankSeq : \A k \in (Len(rankContainer[r]) + 1)..Len(rankContainer'[r]) :
             /\ rankContainer'[r][k].gid > getMaxGid(rankContainer)
             /\ \A x \in AllBodies : rankContainer'[r][k].gid > rankContainer[x[1]][x[2]].gid
        \* no two bodies of the system share a gid
        /\ \A r, q \in RankSeq : \A k \in 1..Len(rankContainer'[r]), j \in 1..Len(rankContainer'[q]) :
             rankContainer'[r][k].gid = rankContainer'[q][j].gid => (r = q /\ k = j)

\* C26: when addNewSylinder has run on all ranks, the gids of the added bodies
\* are pairwise distinct over all ranks and each is greater than the largest
\* gid that existed before, so that no two bodies share a gid, and the bodies
\* that existed before keep their gids.
C26_NewGidsUnique == [][C26_Step]_vars

\* both ranks hold bodies that were there before an addNewSylinder in which
\* each rank added a body; the higher of the new gids went to the lower rank
C26_Witness ==
    /\ pc = "ranks"
    /\ \A r \in RankSeq :
         /\ Len(rankContainer[r]) >= 2
         /\ rankContainer[r][1].gid <= GidOf(MaxInitial - 1)
         /\ rankContainer[r][Len(rankContainer[r])].gid > GidOf(MaxInitial - 1)
    /\ rankContainer[1][Len(rankContainer[1])].gid > rankContainer[NRanks][Len(rankContainer[NRanks])].gid

EnabledWalls ==
    (IF runConfig.wallLowZ THEN {"low"} ELSE {}) \cup (IF runConfig.wallHighZ THEN {"high"} ELSE {})

\* setPosWithWall has returned
AfterSetPos == pc \in {"prepared", "wallLow", "wallHigh"}

ExtentZ(sy) == Abs(sy.direction[3]) * sy.lengthCollision + 2 * sy.radius

\* one wall only, or both walls with room for the rod and one buffer
Fits(sy) ==
    (runConfig.wallLowZ /\ runConfig.wallHighZ) =>
      ExtentZ(sy) + buffer <= runConfig.simBoxHigh[3] - runConfig.simBoxLow[3]

C28_Original ==
    glbPtclVol # NoVolume =>
      \A r \in RankSeq : glbPtclVol[r] = AllreduceSum(rankContainer)

Directions(container) == [k \in 1..Len(container) |-> container[k].direction]

C29_Step ==
    \* fixed bodies: no step changes a position or an orientation, and the
    \* step that ends runStep still has velocities and a solve behind it
    /\ runConfig.sylinderFixed =>
         /\ Positions(sylinderContainer') = Positions(sylinderContainer)
         /\ Directions(sylinderContainer') = Directions(sylinderContainer)
         /\ (pc = "stepEuler" /\ pc' # pc) =>
              /\ stepCount' = stepCount + 1
              /\ velocityNonCon # NullRcp
              /\ cs.lifecycle = "written"
    \* moving bodies: stepEuler advances every body by one Euler step, and no
    \* other step of the pipeline moves a body
    /\ ~runConfig.sylinderFixed =>
         IF pc = "stepEuler" /\ pc' # pc
         THEN /\ \A k \in 1..NBodies :
                   sylinderContainer'[k].pos =
                     Vadd(sylinderContainer[k].pos,
                          Vscale(sylinderContainer[k].vel, runConfig.dt))
              /\ InInitialize \/ stepCount' = stepCount + 1
         ELSE Positions(sylinderContainer') = Positions(sylinderContainer)

\* C29: with sylinderFixed = true no step changes the position or the
\* orientation of a body, while runStep still computes the velocities,
\* resolves the constraints and adds 1 to stepCount; with sylinderFixed = false
\* every local body is advanced once per runStep, by its velocity times dt.
C29_FixedFrame == [][C29_Step]_vars

\* a runStep with moving bodies has ended after a solve with a wall block, and
\* the first body was advanced with a velocity that is not zero
C29_Witness ==
    /\ ~runConfig.sylinderFixed
    /\ ~InInitialize
    /\ pc = "prepareStep"
    /\ stepCount = 2
    /\ count(uniPool) > 0
    /\ cs.lifecycle = "written"
    /\ sylinderContainer[1].vel # ZERO3

\* snapshots per folder: max(400 / nRanks, 1)
FolderSize == IF 400 \div commSize >= 1 THEN 400 \div commSize ELSE 1

C30_Step ==
    \* snapID goes up by 1 with each snapshot written, and only then
    /\ snapID' # snapID =>
         /\ snapID' = snapID + 1
         /\ pc \in {"writeResult", "snapshots"}
         /\ \E f \in result' : f.snapID = snapID /\ result' = result \cup {f} /\ f \notin result
    /\ result' # result => snapID' = snapID + 1
    \* the folder of the snapshot written
    /\ \A f \in result' \ result :
         /\ f.folder.low <= f.snapID /\ f.snapID <= f.folder.high
         /\ f.folder.high - f.folder.low + 1 = FolderSize
         /\ f.folder.low % FolderSize = 0
         \* the folder is not over-filled
         /\ Cardinality({g \in result' : g.folder = f.folder}) <= FolderSize
         \* the folder before it was filled first
         /\ \A g \in result :
              g.snapID = f.snapID - 1 =>
                \/ g.folder = f.folder
                \/ /\ g.snapID = g.folder.high
                   /\ f.snapID = f.folder.low
                   /\ Cardinality({h \in result : h.folder = g.folder}) = FolderSize

\* C30: snapID goes up by exactly 1 with each writeResult and never
\* otherwise; the folder of a snapshot is named by a range [low, high] with
\* low <= snapID <= high, high - low + 1 = max(400 / nRanks, 1) and low a
\* multiple of that size, so that consecutive snapshots fill one folder before
\* the next is used and no folder gets more snapshots than its size.
C30_SnapshotFolders == [][C30_Step]_vars

\* with folders of 2 snapshots, the first folder is full and the second folder
\* has received the third snapshot
C30_Witness ==
    /\ FolderSize = 2
    /\ snapID = 3
    /\ [folder |-> [low |-> 0, high |-> 1], snapID |-> 1] \in result
    /\ [folder |-> [low |-> 2, high |-> 3], snapID |-> 2] \in result

====
